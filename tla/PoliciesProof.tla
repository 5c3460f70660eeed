---------------------------- MODULE PoliciesProof ----------------------------
(* Theorems about the parts of Policies, for any hosts and any measurements. *)
EXTENDS Policies, GradientProof

(* Counters. *)

LEMMA Division ==
    ASSUME NEW a \in Int, NEW n \in Nat, n > 0
    PROVE  /\ a \div n \in Int /\ a % n \in Int
           /\ a = n * (a \div n) + (a % n) /\ 0 <= a % n /\ a % n < n
  <1>1. a \div n \in Int
    OBVIOUS
  <1>2. a % n \in Int
    OBVIOUS
  <1>3. 0 <= a % n
    OBVIOUS
  <1>4. a % n < n
    OBVIOUS
  <1>5. a = n * (a \div n) + (a % n)
    OBVIOUS
  <1>6. QED BY <1>1, <1>2, <1>3, <1>4, <1>5

LEMMA DivisionIsUnique ==
    ASSUME NEW n \in Nat, NEW k \in Int, NEW d \in Int, 0 <= d, d < n
    PROVE  (d + n * k) % n = d
  <1> DEFINE a == d + n * k
             q == a \div n
             r == a % n
  <1>1. a \in Int
    OBVIOUS
  <1>2. q \in Int /\ r \in Int /\ a = n * q + r /\ 0 <= r /\ r < n
    <2> HIDE DEF a
    <2>1. QED BY <1>1, Division
  <1>3. n * (k - q) = r - d
    BY <1>2
  <1> HIDE DEF a, q, r
  <1>4. k - q \in Int /\ -n < n * (k - q) /\ n * (k - q) < n
    BY <1>2, <1>3
  <1>5. \A m \in Int : -n < n * m /\ n * m < n => m = 0
    OBVIOUS
  <1>6. k - q = 0
    BY <1>4, <1>5
  <1>7. r = d
    BY <1>2, <1>3, <1>6
  <1>8. QED BY <1>7 DEF r, a

\* What the two halves have lost by wrapping around is a multiple of Width.
LEMMA JiffiesWrap ==
    ASSUME NEW n \in Nat
    PROVE  \E k \in Int : Counting!Jiffies(n) = n - Width * k
  <1> DEFINE u == n \div 2
             s == n - u
  <1>1. Width \in Nat /\ Width > 0
    BY PoliciesAssumption
  <1>2. u \in Int /\ s \in Int /\ u + s = n
    BY Division
  <1> HIDE DEF u, s
  <1>3. /\ u \div Width \in Int /\ u % Width \in Int /\ u = Width * (u \div Width) + (u % Width)
        /\ s \div Width \in Int /\ s % Width \in Int /\ s = Width * (s \div Width) + (s % Width)
    BY <1>1, <1>2, Division
  <1>4. (u % Width) + (s % Width) = n - Width * (u \div Width + s \div Width)
    BY <1>1, <1>2, <1>3
  <1>5. Counting!Jiffies(n) = (u % Width) + (s % Width)
    BY DEF Counting!Jiffies, u, s
  <1>6. u \div Width + s \div Width \in Int
    BY <1>3
  <1>7. QED BY <1>4, <1>5, <1>6

LEMMA GrownIsGrowth ==
    ASSUME NEW m \in Nat, NEW n \in Nat, m <= n, n - m < Width
    PROVE  (Counting!Jiffies(n) - Counting!Jiffies(m)) % Width = n - m
  <1>1. PICK k \in Int : Counting!Jiffies(n) = n - Width * k
    BY JiffiesWrap
  <1>2. PICK l \in Int : Counting!Jiffies(m) = m - Width * l
    BY JiffiesWrap
  <1>3. Width \in Nat
    BY PoliciesAssumption
  <1>4. Counting!Jiffies(n) - Counting!Jiffies(m) = (n - m) + Width * (l - k)
    BY <1>1, <1>2, <1>3
  <1>5. QED BY <1>3, <1>4, DivisionIsUnique

\* A collector has the counter as it was when it was read last, and what it has
\* reported is the growth since the first time.
NeverRead == first = Counting!None /\ total = 0
Complete == first \in Nat /\ total = read - first
Rounded ==
    LET lost == read - first - total * Interval
    IN  first \in Nat /\ 0 <= lost /\ lost <= (Interval - 1) * passes

CountersInv ==
    /\ counter \in Nat /\ read \in Nat /\ passes \in Nat /\ total \in Int
    /\ read <= counter
    /\ collector \in {"HostMemory", "GuestQemuProc", "HostKSM"}
    /\ collector = "HostMemory" =>
          IF passes = 0 THEN NeverRead /\ cur = Counting!None ELSE Complete /\ cur = read
    /\ collector = "GuestQemuProc" =>
          IF passes = 0 THEN NeverRead /\ prev_faults = Counting!None
                        ELSE Complete /\ prev_faults = read
    /\ collector = "HostKSM" =>
          Rounded /\ last_jiff = Counting!Jiffies(read) /\ counter - read < Width

LEMMA CountersInit == PartsInit => CountersInv
  <1> SUFFICES ASSUME PartsInit PROVE CountersInv
    OBVIOUS
  <1>1. Width \in Nat /\ Width > 0 /\ Interval \in Nat /\ Interval > 0
    BY PoliciesAssumption
  <1>2. Counting!Init
    BY DEF PartsInit
  <1>3. counter \in Nat /\ read = counter /\ passes = 0 /\ total = 0
    BY <1>1, <1>2 DEF Counting!Init
  <1>4. collector = "HostKSM" => Rounded /\ last_jiff = Counting!Jiffies(read) /\ counter - read < Width
    <2>1. ASSUME collector = "HostKSM" PROVE first = counter /\ last_jiff = Counting!Jiffies(counter)
      BY <1>2, <2>1 DEF Counting!Init
    <2>2. QED BY <1>1, <1>3, <2>1 DEF Rounded
  <1>5. collector # "HostKSM" => first = Counting!None
    BY <1>2 DEF Counting!Init
  <1>6. cur = Counting!None /\ prev_faults = Counting!None
        /\ collector \in {"HostMemory", "GuestQemuProc", "HostKSM"}
    BY <1>2 DEF Counting!Init
  <1>7. QED BY <1>3, <1>4, <1>5, <1>6 DEF CountersInv, NeverRead

\* A pass that reports n, from a counter that was read before.
LEMMA ReportExactly ==
    ASSUME CountersInv, NEW n, Counting!Reported(n), collector # "HostKSM",
           passes = 0 => n = 0,  passes > 0 => n = counter - read
    PROVE  passes' \in Nat /\ passes' > 0 /\ read' = counter /\ total' \in Int /\ Complete'
  <1>1. /\ passes' = passes + 1 /\ read' = counter /\ total' = total + n
        /\ first' = IF first = Counting!None THEN counter ELSE first
    BY DEF Counting!Reported
  <1>2. Counting!None = -1
    BY DEF Counting!None
  <1>3. CASE passes = 0
    <2>1. NeverRead
      BY <1>3 DEF CountersInv
    <2>2. QED BY <1>1, <1>3, <2>1 DEF CountersInv, NeverRead, Complete
  <1>4. CASE passes > 0
    <2>1. Complete
      BY <1>4 DEF CountersInv
    <2>2. QED BY <1>1, <1>2, <1>4, <2>1 DEF CountersInv, Complete
  <1>5. QED BY <1>3, <1>4 DEF CountersInv

LEMMA GrowStep == ASSUME CountersInv, Counting!Grow PROVE CountersInv'
  <1>1. counter' = counter + 1 /\ counter + 1 - read < Width
    BY DEF Counting!Grow
  <1>2. UNCHANGED <<collector, prev, cur, prev_faults, last_jiff, total, first, read, passes>>
    BY DEF Counting!Grow
  <1>3. counter' \in Nat /\ read' <= counter' /\ counter' - read' < Width
    BY <1>1, <1>2 DEF CountersInv
  <1>4. QED BY <1>2, <1>3 DEF CountersInv, NeverRead, Complete, Rounded

LEMMA ExitStep == ASSUME CountersInv, Counting!Exit PROVE CountersInv'
  BY DEF CountersInv, Counting!Exit, NeverRead, Complete, Rounded

LEMMA MemoryStep == ASSUME CountersInv, Counting!CollectMemory PROVE CountersInv'
  <1>1. /\ collector = "HostMemory" /\ collector' = collector /\ counter' = counter
        /\ cur' = counter /\ prev' = (IF cur = Counting!None THEN counter ELSE cur)
        /\ Counting!Reported(cur' - prev')
    BY DEF Counting!CollectMemory, Counting!Reported
  <1>2. passes = 0 => cur' - prev' = 0
    BY <1>1 DEF CountersInv
  <1>3. passes > 0 => cur' - prev' = counter - read
    BY <1>1 DEF CountersInv, Counting!None
  <1>4. passes' \in Nat /\ passes' > 0 /\ read' = counter /\ total' \in Int /\ Complete'
    BY <1>1, <1>2, <1>3, ReportExactly
  <1>5. QED BY <1>1, <1>4 DEF CountersInv

LEMMA ProcessStep == ASSUME CountersInv, Counting!CollectProcess PROVE CountersInv'
  <1> DEFINE n == counter - (IF prev_faults = Counting!None THEN counter ELSE prev_faults)
  <1>1. /\ collector = "GuestQemuProc" /\ collector' = collector /\ counter' = counter
        /\ prev_faults' = counter /\ Counting!Reported(n)
    BY DEF Counting!CollectProcess, Counting!Reported
  <1>2. passes = 0 => n = 0
    BY <1>1 DEF CountersInv
  <1>3. passes > 0 => n = counter - read
    BY <1>1 DEF CountersInv, Counting!None
  <1> HIDE DEF n
  <1>4. passes' \in Nat /\ passes' > 0 /\ read' = counter /\ total' \in Int /\ Complete'
    BY <1>1, <1>2, <1>3, ReportExactly
  <1>5. QED BY <1>1, <1>4 DEF CountersInv

LEMMA KSMStep == ASSUME CountersInv, Counting!CollectKSM PROVE CountersInv'
  <1> DEFINE g == counter - read
             q == g \div Interval
  <1>1. /\ collector = "HostKSM" /\ collector' = collector /\ counter' = counter
        /\ last_jiff' = Counting!Jiffies(counter)
        /\ passes' = passes + 1 /\ read' = counter
        /\ total' = total + (Counting!Grown \div Interval)
        /\ first' = IF first = Counting!None THEN counter ELSE first
    BY DEF Counting!CollectKSM, Counting!Reported
  <1>2. Rounded /\ last_jiff = Counting!Jiffies(read) /\ g < Width /\ g \in Nat
        /\ counter \in Nat /\ read \in Nat /\ passes \in Nat /\ total \in Int /\ read <= counter
    BY <1>1 DEF CountersInv
  <1>3. Counting!Grown = g
    BY <1>2, GrownIsGrowth DEF Counting!Grown
  <1>4. Interval \in Nat /\ Interval > 0
    BY PoliciesAssumption
  <1>5. q \in Int /\ 0 <= g - q * Interval /\ g - q * Interval <= Interval - 1
    <2> HIDE DEF g
    <2>1. q \in Int /\ g % Interval \in Int /\ g = Interval * q + (g % Interval)
          /\ 0 <= g % Interval /\ g % Interval < Interval
      BY <1>2, <1>4, Division
    <2> HIDE DEF q
    <2>2. QED BY <1>4, <2>1
  <1>6. total' = total + q
    BY <1>1, <1>3
  <1>7. first' = first /\ first \in Nat
    BY <1>1, <1>2 DEF Rounded, Counting!None
  <1> DEFINE lost == read - first - total * Interval
  <1>8. 0 <= lost /\ lost <= (Interval - 1) * passes /\ lost \in Int
    BY <1>2, <1>4, <1>7 DEF Rounded
  <1>9. read' - first' - total' * Interval = lost + (g - q * Interval)
    <2> HIDE DEF q
    <2>1. QED BY <1>1, <1>2, <1>4, <1>5, <1>6, <1>7
  <1>10. (Interval - 1) * passes' = (Interval - 1) * passes + (Interval - 1)
    BY <1>1, <1>2, <1>4
  <1>11. Rounded'
    <2> DEFINE x == g - q * Interval
               most == (Interval - 1) * passes
    <2>1. x \in Int /\ most \in Int
      <3> HIDE DEF q, g
      <3>1. QED BY <1>2, <1>4, <1>5
    <2>2. read' - first' - total' * Interval = lost + x
      BY <1>9
    <2>3. (Interval - 1) * passes' = most + (Interval - 1)
      BY <1>10
    <2>4. 0 <= x /\ x <= Interval - 1 /\ 0 <= lost /\ lost <= most /\ lost \in Int
      BY <1>5, <1>8
    <2> HIDE DEF x, most, lost, q, g
    <2>5. 0 <= lost + x /\ lost + x <= most + (Interval - 1)
      BY <1>4, <2>1, <2>4
    <2>6. QED BY <1>7, <2>2, <2>3, <2>5 DEF Rounded
  <1>12. total' \in Int
    <2> HIDE DEF q
    <2>1. QED BY <1>2, <1>5, <1>6
  <1>13. counter' - read' < Width
    BY <1>1, <1>2, PoliciesAssumption
  <1>14. QED BY <1>1, <1>2, <1>11, <1>12, <1>13 DEF CountersInv

LEMMA CountersStep == CountersInv /\ [PartsNext]_partsVars => CountersInv'
  <1>1. ASSUME CountersInv, UNCHANGED countVars PROVE CountersInv'
    BY <1>1 DEF CountersInv, countVars, NeverRead, Complete, Rounded
  <1>2. ASSUME CountersInv, Counting!Next PROVE CountersInv'
    BY <1>2, GrowStep, ExitStep, MemoryStep, ProcessStep, KSMStep DEF Counting!Next
  <1>3. [PartsNext]_partsVars => UNCHANGED countVars \/ Counting!Next
    BY DEF PartsNext, GradientMoves, RPMoves, WFMMoves, FitMoves, VdsmMoves, CountersMove,
           partsVars, measured
  <1>4. QED BY <1>1, <1>2, <1>3

\* What HostMemory, GuestQemuProc and HostKSM have reported adds up to what their
\* counter has grown by, for counters of any width and passes of any number.
THEOREM GrowthAddsUp == PartsSpec => []CountersAddUp
  <1>1. CountersInv => CountersAddUp
    <2> SUFFICES ASSUME CountersInv, part = "counters", passes > 0
                 PROVE  LET lost == read - first - total *
                                    (IF collector = "HostKSM" THEN Interval ELSE 1)
                        IN  /\ lost >= 0
                            /\ lost <= IF collector = "HostKSM" THEN (Interval - 1) * passes ELSE 0
      BY DEF CountersAddUp, Counting!CountersAddUp
    <2>1. CASE collector = "HostKSM"
      BY <2>1 DEF CountersInv, Rounded
    <2>2. CASE collector # "HostKSM"
      <3>1. Complete /\ read \in Nat /\ total \in Int
        BY <2>2 DEF CountersInv
      <3>2. QED BY <2>2, <3>1 DEF Complete
    <2>3. QED BY <2>1, <2>2
  <1>2. QED BY <1>1, CountersInit, CountersStep, PTL DEF PartsSpec
-----------------------------------------------------------------------------
(* RPPolicy. *)

\* A sum is the same in every module that uses Sums.
LEMMA RPSum == ASSUME NEW f PROVE RP!Sum(f) = Sum(f)
  BY DEF RP!Sum, RP!Prefix, Sum, Prefix

LEMMA RPCount == ASSUME NEW S PROVE RP!Cardinality(S) = Cardinality(S)
  BY DEF RP!Cardinality, Cardinality

RPType ==
    /\ known \in SUBSET VM /\ listed \in SUBSET VM /\ todo \in SUBSET listed
    /\ allocated \in [VM -> Int] /\ balloon \in [VM -> Int] /\ asked \in [VM -> Int]
    /\ free \in [VM -> Nat] /\ speed \in [VM -> Int]
    /\ \A f \in {givers, takers, target} : DOMAIN f \in SUBSET VM /\ f \in [DOMAIN f -> Int]

RPInv == part = "rp" => RPType /\ RP!TransferIsFair

LEMMA RPInit == PartsInit => RPInv
  <1> SUFFICES ASSUME RP!Init PROVE RPType /\ RP!TransferIsFair
    BY DEF PartsInit, RPInv
  <1> USE DEF RP!Init
  <1>1. known \in SUBSET VM /\ listed \in SUBSET VM /\ todo \in SUBSET listed
    OBVIOUS
  <1>2. allocated \in [VM -> Int] /\ balloon \in [VM -> Int] /\ asked \in [VM -> Int]
    BY GradientAssumption DEF RP!VM, VM
  <1>3. free \in [VM -> Nat] /\ speed \in [VM -> Int]
    BY DEF RP!VM, VM
  <1>4. \A f \in {givers, takers, target} : DOMAIN f \in SUBSET VM /\ f \in [DOMAIN f -> Int]
    BY DEF RP!Nothing
  <1>5. RP!TransferIsFair
    BY DEF RP!TransferIsFair
  <1>6. QED BY ONLY <1>1, <1>2, <1>3, <1>4, <1>5 DEF RPType

LEMMA RPCardinality ==
    ASSUME RPType, known # {}
    PROVE  Cardinality(known) \in Nat /\ Cardinality(known) > 0
  <1>1. IsFiniteSet(VM)
    BY FS_Interval, GradientAssumption DEF VM
  <1>2. IsFiniteSet(known)
    BY <1>1, FS_Subset DEF RPType
  <1>3. QED BY <1>2, FS_CardinalityType, FS_EmptySet

LEMMA RPTargetsType ==
    ASSUME NEW S, NEW f \in [VM -> Int], listed \in SUBSET VM
    PROVE  /\ DOMAIN RP!Targets(S, f) \in SUBSET VM
           /\ RP!Targets(S, f) \in [DOMAIN RP!Targets(S, f) -> Int]
  BY DEF RP!Targets

\* The loop over the guests.
LEMMA RPUpdate == ASSUME RPType, RP!BeginRound \/ RP!UpdateInfo \/ RP!NoGuests PROVE RPType'
  <1>1. CASE RP!BeginRound
    <2>1. \A f \in {givers', takers', target'} : DOMAIN f \in SUBSET VM /\ f \in [DOMAIN f -> Int]
      BY <1>1 DEF RP!BeginRound, RP!Nothing
    <2>2. listed' \in SUBSET VM /\ todo' \in SUBSET listed'
      BY <1>1 DEF RP!BeginRound, RP!VM, VM
    <2>3. UNCHANGED <<known, allocated, balloon, free, speed, asked>>
      BY <1>1 DEF RP!BeginRound
    <2>4. QED BY <2>1, <2>2, <2>3 DEF RPType
  <1>2. CASE RP!UpdateInfo
    <2> DEFINE v == RP!First(todo)
    <2>1. v \in todo /\ v \in VM
      <3>1. todo \in SUBSET VM /\ todo # {}
        BY <1>2 DEF RP!UpdateInfo, RPType
      <3>2. First(todo) \in todo
        BY <3>1, FirstIsMember
      <3>3. RP!First(todo) = First(todo)
        BY DEF RP!First, First
      <3>4. QED BY <3>1, <3>2, <3>3
    <2>2. known' = known \cup {v} /\ todo' = todo \ {v}
      BY <1>2 DEF RP!UpdateInfo
    <2>3. balloon' \in [VM -> Int]
      <3>1. balloon[v] \in Int /\ asked[v] \in Int /\ Configured[v] \in Int
        BY <2>1, GradientAssumption DEF RPType
      <3>2. \E b \in {balloon[v], asked[v], Configured[v]} : balloon' = [balloon EXCEPT ![v] = b]
        BY <1>2 DEF RP!UpdateInfo
      <3> HIDE DEF v
      <3>3. QED BY <2>1, <3>1, <3>2 DEF RPType
    <2>4. free' \in [VM -> Nat]
      BY <1>2, <2>1, GradientAssumption DEF RP!UpdateInfo, RPType
    <2>5. speed' \in [VM -> Int]
      BY <1>2, <2>1, GradientAssumption DEF RP!UpdateInfo, RPType
    <2>6. UNCHANGED <<listed, allocated, givers, takers, target, asked>>
      BY <1>2 DEF RP!UpdateInfo
    <2> HIDE DEF v
    <2>7. QED BY ONLY RPType, <2>1, <2>2, <2>3, <2>4, <2>5, <2>6 DEF RPType
  <1>3. CASE RP!NoGuests
    BY <1>3 DEF RP!NoGuests, RPType
  <1>4. QED BY <1>1, <1>2, <1>3

LEMMA RPFirstTime == ASSUME RPType, RP!FirstTime PROVE RPType'
  <1>1. UNCHANGED <<listed, todo, known, balloon, free, speed, givers, takers, asked>>
    BY DEF RP!FirstTime
  <1>2. CASE UNCHANGED <<allocated, target>>
    BY <1>1, <1>2 DEF RPType
  <1>3. CASE known # {} /\ target' = RP!Targets(known, allocated')
             /\ allocated' = [v \in VM |-> IF v \in known THEN TotalMem \div Cardinality(known) ELSE 0]
    <2>1. TotalMem \div Cardinality(known) \in Int
      BY <1>3, RPCardinality, Quotient, GradientAssumption
    <2>2. allocated' \in [VM -> Int]
      BY <1>3, <2>1
    <2>3. DOMAIN target' \in SUBSET VM /\ target' \in [DOMAIN target' -> Int]
      BY <1>3, <2>2, RPTargetsType DEF RPType
    <2>4. QED BY ONLY RPType, <1>1, <2>2, <2>3 DEF RPType
  <1>4. \/ UNCHANGED <<allocated, target>>
        \/ /\ known # {} /\ target' = RP!Targets(known, allocated')
           /\ allocated' = [v \in VM |-> IF v \in known THEN TotalMem \div Cardinality(known) ELSE 0]
    BY RPCount DEF RP!FirstTime, RP!VM, VM
  <1>5. QED BY <1>2, <1>3, <1>4

\* The choice of the transfers.
decided == <<listed, todo, known, allocated, balloon, free, speed, asked, target>>

LEMMA RPDecide ==
    ASSUME NEW g, NEW t, RP!Decide(g, t)
    PROVE  givers' = g /\ takers' = t /\ UNCHANGED decided
  BY DEF RP!Decide, decided

LEMMA RPDecidesType ==
    ASSUME RPType, UNCHANGED decided,
           \A f \in {givers', takers'} : DOMAIN f \in SUBSET VM /\ f \in [DOMAIN f -> Int]
    PROVE  RPType'
  <1>1. \A f \in {givers', takers', target'} : DOMAIN f \in SUBSET VM /\ f \in [DOMAIN f -> Int]
    BY DEF RPType, decided
  <1>2. QED BY <1>1 DEF RPType, decided

\* Nothing is transferred.
LEMMA RPDecidesNothing ==
    ASSUME RPType, RP!Decide(RP!Nothing, RP!Nothing) PROVE RPType' /\ RP!TransferIsFair'
  <1>1. givers' = RP!Nothing /\ takers' = RP!Nothing /\ UNCHANGED decided
    BY RPDecide
  <1>2. RPType' /\ DOMAIN givers' = {}
    BY <1>1, RPDecidesType DEF RP!Nothing
  <1>3. QED BY <1>2 DEF RP!TransferIsFair

LEMMA RPRateType == ASSUME RPType PROVE \A v \in VM : RP!Rate(v) \in Int
  <1>1. \A v \in VM : speed[v] \in Int /\ InvWeight[v] \in Int
    BY GradientAssumption DEF RPType
  <1>2. QED BY <1>1 DEF RP!Rate

\* dynamic_allocate, with a VM to give: what is moved is the least of three
\* numbers, of which each is positive.
LEMMA RPTransfer ==
    ASSUME RPType, RP!Idle = {}, NEW t \in RP!Lowest, NEW g \in RP!Giver(t), NEW blk,
           blk = RP!MinOf(RP!MinOf(RP!Dist2low(g), RP!Dist2high(t)), Min_share),
           RP!Decide([v \in {g} |-> -blk], [v \in {t} |-> blk])
    PROVE  RPType' /\ RP!TransferIsFair'
  <1>1. g \in known /\ t \in known /\ g # t /\ g \in VM /\ t \in VM
    BY DEF RP!Lowest, RP!Giver, RPType
  <1>2. allocated[g] \in Int /\ free[t] \in Nat /\ Least \in Int /\ Max_free \in Int
        /\ Min_share \in Int /\ Min_share > 0
    <2>1. allocated[g] \in Int /\ free[t] \in Nat
      BY <1>1 DEF RPType
    <2>2. Min_share \in Int /\ Min_share > 0
      BY PoliciesAssumption
    <2>3. QED BY <2>1, <2>2, GradientAssumption
  <1>3. allocated[g] - Least > 0
    BY DEF RP!Giver, RP!Dist2low
  <1>4. Max_free - free[t] > 0
    BY <1>1, <1>2 DEF RP!Idle
  <1>5. blk \in Int /\ blk > 0 /\ blk <= allocated[g] - Least /\ blk <= Max_free - free[t]
    BY <1>2, <1>3, <1>4 DEF RP!MinOf, RP!Dist2low, RP!Dist2high
  <1>6. givers' = [v \in {g} |-> -blk] /\ takers' = [v \in {t} |-> blk] /\ UNCHANGED decided
    BY RPDecide
  <1>7. RPType'
    BY <1>1, <1>5, <1>6, RPDecidesType
  <1>8. ASSUME NEW v \in known, RP!Rate(v) > RP!Rate(g) PROVE allocated[v] <= Least
    <2>1. RP!Rate(v) \in Int /\ RP!Rate(g) \in Int /\ allocated[v] \in Int
      BY <1>1, RPRateType DEF RPType
    <2>2. v # t
      <3>1. RP!Rate(t) <= RP!Rate(g)
        BY <1>1 DEF RP!Lowest
      <3>2. ~(RP!Rate(v) <= RP!Rate(g))
        BY <1>8, <2>1
      <3>3. QED BY <3>1, <3>2
    <2>3. ~(allocated[v] - Least > 0)
      BY <1>8, <2>1, <2>2 DEF RP!Giver, RP!Dist2low
    <2>4. QED BY <1>2, <2>1, <2>3
  <1>9. /\ g # t /\ givers'[g] < 0 /\ givers'[g] + takers'[t] = 0 /\ RP!Rate(t) <= RP!Rate(g)
        /\ allocated[g] + givers'[g] >= Least
        /\ free[t] + takers'[t] <= Max_free
    <2>1. givers'[g] = -blk /\ takers'[t] = blk
      BY <1>6
    <2>2. RP!Rate(t) <= RP!Rate(g)
      BY <1>1 DEF RP!Lowest
    <2>3. QED BY <1>1, <1>2, <1>5, <2>1, <2>2
  <1>10. \A v \in known : RP!Rate(v)' = RP!Rate(v)
    BY <1>6 DEF RP!Rate, decided
  <1>11. QED
    <2>1. DOMAIN givers' = {g} /\ DOMAIN takers' = {t} /\ known' = known /\ allocated' = allocated
          /\ free' = free
      BY <1>6 DEF decided
    <2>2. \A x \in DOMAIN givers', y \in DOMAIN takers' :
            /\ x # y /\ givers'[x] < 0 /\ givers'[x] + takers'[y] = 0 /\ RP!Rate(y)' <= RP!Rate(x)'
            /\ allocated'[x] + givers'[x] >= Least
            /\ free'[y] + takers'[y] <= Max_free
            /\ \A v \in known' : RP!Rate(v)' > RP!Rate(x)' => allocated'[v] <= Least
      BY <1>1, <1>8, <1>9, <1>10, <2>1
    <2>3. QED BY <1>7, <2>2 DEF RP!TransferIsFair

LEMMA RPEvaluate ==
    ASSUME RPType, RP!NoRate \/ RP!DynamicAllocate \/ RP!AllIdle
    PROVE  RPType' /\ RP!TransferIsFair'
  <1>1. CASE RP!Decide(RP!Nothing, RP!Nothing)
    BY <1>1, RPDecidesNothing
  <1>2. ASSUME RP!DynamicAllocate, ~RP!Decide(RP!Nothing, RP!Nothing)
        PROVE  RPType' /\ RP!TransferIsFair'
    <2>1. PICK t \in RP!Lowest : \E g \in RP!Giver(t) :
              LET blk == RP!MinOf(RP!MinOf(RP!Dist2low(g), RP!Dist2high(t)), Min_share)
              IN  RP!Decide([v \in {g} |-> -blk], [v \in {t} |-> blk])
      BY <1>2 DEF RP!DynamicAllocate
    <2>2. RP!Idle = {}
      BY <1>2 DEF RP!DynamicAllocate
    <2>3. QED BY <2>1, <2>2, RPTransfer
  <1>3. QED BY <1>1, <1>2 DEF RP!NoRate, RP!AllIdle

LEMMA RPMean == ASSUME RPType, RP!MeanByFree PROVE RPType' /\ RP!TransferIsFair'
  <1> DEFINE share == RP!TotalFree \div Cardinality(known)
             G == [v \in {w \in known : share < RP!FreeOf(w)} |-> share - RP!FreeOf(v)]
             T == [v \in {w \in known : share >= RP!FreeOf(w)} |-> share - RP!FreeOf(v)]
  <1>1. givers' = G /\ takers' = T /\ UNCHANGED decided /\ RP!Idle # {}
    BY RPCount DEF RP!MeanByFree, RP!Decide, decided
  <1>2. known # {} /\ known \in SUBSET VM
    BY <1>1 DEF RP!Idle, RPType
  <1>3. \A v \in VM : RP!FreeOf(v) \in Int
    BY GradientAssumption DEF RPType, RP!FreeOf, RP!Dist2low
  <1>4. RP!TotalFree \in Int
    <2>1. [v \in Index(N) |-> IF v \in known THEN RP!FreeOf(v) ELSE 0] \in [Index(N) -> Int]
      BY <1>3 DEF VM, Index
    <2>2. QED BY <2>1, NIsNat, SumType, RPSum DEF RP!TotalFree, RP!VM, Index
  <1>5. share \in Int
    BY <1>2, <1>4, RPCardinality, Quotient
  <1>6. \A f \in {G, T} : DOMAIN f \in SUBSET VM /\ f \in [DOMAIN f -> Int]
    <2> HIDE DEF share
    <2>1. QED BY <1>2, <1>3, <1>5
  <1>7. RP!Idle' # {}
    BY <1>1 DEF decided, RP!Idle
  <1> HIDE DEF G, T
  <1>8. RPType'
    BY <1>1, <1>6, RPDecidesType
  <1>9. QED BY <1>7, <1>8 DEF RP!TransferIsFair

LEMMA RPTrigger ==
    ASSUME RPType, RP!TriggerBalloon \/ RP!ProcessBalloon PROVE RPType'
  <1>1. CASE RP!TriggerBalloon
    <2>1. \A v \in VM : RP!Change(v) \in Int
      BY DEF RPType, RP!Change
    <2>2. allocated' \in [VM -> Int]
      BY <1>1, <2>1 DEF RP!TriggerBalloon, RPType, RP!VM, VM
    <2>3. UNCHANGED <<listed, todo, known, balloon, free, speed, givers, takers, asked>>
      BY <1>1 DEF RP!TriggerBalloon
    <2>4. target' = RP!Targets(DOMAIN givers \cup DOMAIN takers, allocated') /\ listed \in SUBSET VM
      BY <1>1 DEF RP!TriggerBalloon, RPType
    <2>5. DOMAIN target' \in SUBSET VM /\ target' \in [DOMAIN target' -> Int]
      BY <2>2, <2>4, RPTargetsType
    <2>6. QED BY ONLY RPType, <2>2, <2>3, <2>5 DEF RPType
  <1>2. CASE RP!ProcessBalloon
    <2>1. asked' \in [VM -> Int]
      BY <1>2 DEF RP!ProcessBalloon, RPType, RP!VM, VM
    <2>2. QED BY <1>2, <2>1 DEF RP!ProcessBalloon, RPType
  <1>3. QED BY <1>1, <1>2

LEMMA RPStep == RPInv /\ [PartsNext]_partsVars => RPInv'
  <1>1. ASSUME RPType, RP!Next PROVE RPType' /\ RP!TransferIsFair'
    <2>1. CASE RP!BeginRound \/ RP!UpdateInfo \/ RP!NoGuests
      <3>1. phase' # "trigger"
        BY <2>1 DEF RP!BeginRound, RP!UpdateInfo, RP!NoGuests
      <3>2. QED BY <1>1, <2>1, <3>1, RPUpdate DEF RP!TransferIsFair
    <2>2. CASE RP!FirstTime
      <3>1. phase' # "trigger"
        BY <2>2 DEF RP!FirstTime
      <3>2. QED BY <1>1, <2>2, <3>1, RPFirstTime DEF RP!TransferIsFair
    <2>3. CASE RP!NoRate \/ RP!DynamicAllocate \/ RP!AllIdle
      BY <1>1, <2>3, RPEvaluate
    <2>4. CASE RP!MeanByFree
      BY <1>1, <2>4, RPMean
    <2>5. CASE RP!TriggerBalloon \/ RP!ProcessBalloon
      <3>1. phase' # "trigger"
        BY <2>5 DEF RP!TriggerBalloon, RP!ProcessBalloon
      <3>2. QED BY <1>1, <2>5, <3>1, RPTrigger DEF RP!TransferIsFair
    <2>6. QED BY <1>1, <2>1, <2>2, <2>3, <2>4, <2>5 DEF RP!Next
  <1>2. ASSUME RPType, RP!TransferIsFair, UNCHANGED <<sharedVars, rpOnly>>
        PROVE  RPType' /\ RP!TransferIsFair'
    <2>1. UNCHANGED <<listed, todo, known, balloon, free, speed, allocated, givers, takers,
                      target, asked, phase>>
      BY <1>2 DEF sharedVars, infoVars, rpOnly
    <2>2. RPType'
      BY <1>2, <2>1 DEF RPType
    <2>3. RP!TransferIsFair'
      BY <1>2, <2>1 DEF RP!TransferIsFair, RP!Idle, RP!Rate
    <2>4. QED BY <2>2, <2>3
  <1>3. [PartsNext]_partsVars =>
            part' # "rp" \/ (part = "rp" /\ (RP!Next \/ UNCHANGED <<sharedVars, rpOnly>>))
    <2>1. GradientMoves => part' # "rp"
      BY DEF GradientMoves
    <2>2. RPMoves => part = "rp" /\ RP!Next
      BY DEF RPMoves
    <2>3. WFMMoves \/ FitMoves \/ VdsmMoves \/ CountersMove =>
              UNCHANGED <<part, sharedVars, rpOnly>>
      BY DEF WFMMoves, FitMoves, VdsmMoves, CountersMove
    <2>4. UNCHANGED partsVars => UNCHANGED <<part, sharedVars, rpOnly>>
      BY DEF partsVars
    <2>5. QED BY <2>1, <2>2, <2>3, <2>4 DEF PartsNext
  <1>4. QED BY <1>1, <1>2, <1>3 DEF RPInv

\* A transfer of the RP policy goes from a VM to one that does not do better, and
\* within the limits of both, for any number of VMs and any measurements.
THEOREM TransfersAreFair == PartsSpec => []TransferIsFair
  <1>1. RPInv => TransferIsFair
    BY DEF RPInv, TransferIsFair
  <1>2. QED BY <1>1, RPInit, RPStep, PTL DEF PartsSpec
-----------------------------------------------------------------------------
(* The budget, which the gradient policy and the RP policy both keep. *)

RPChange == [v \in VM |-> RP!Change(v)]
RPBudget == BudgetKept /\ (phase = "trigger" => Sum(RPChange) <= 0)

LEMMA RPFirstTimeBudget == ASSUME RPType, RPBudget, RP!FirstTime PROVE RPBudget'
  <1>1. phase' # "trigger"
    BY DEF RP!FirstTime
  <1>2. CASE UNCHANGED allocated
    BY <1>1, <1>2 DEF RPBudget, BudgetKept
  <1>3. CASE /\ known # {}
             /\ allocated' = [v \in VM |-> IF v \in known THEN TotalMem \div Cardinality(known) ELSE 0]
    <2> DEFINE n == Cardinality(known)
               share == TotalMem \div n
    <2>1. n \in Nat /\ n > 0 /\ TotalMem \in Int
      BY <1>3, RPCardinality, GradientAssumption
    <2>2. share \in Int /\ share * n <= TotalMem
      <3> HIDE DEF n
      <3>1. QED BY <2>1, Quotient
    <2>3. allocated' = [v \in Index(N) |-> IF v \in known THEN share ELSE 0]
      BY <1>3 DEF VM, Index
    <2>4. known \in SUBSET Index(N)
      BY DEF RPType, VM, Index
    <2> HIDE DEF share
    <2>5. Sum(allocated') = share * n
      BY NIsNat, <2>2, <2>3, <2>4, SumOfEqual
    <2>6. QED BY <1>1, <2>2, <2>5 DEF RPBudget, BudgetKept
  <1>4. UNCHANGED allocated \/
            /\ known # {}
            /\ allocated' = [v \in VM |-> IF v \in known THEN TotalMem \div Cardinality(known) ELSE 0]
    BY RPCount DEF RP!FirstTime, RP!VM, VM
  <1>5. QED BY <1>2, <1>3, <1>4

LEMMA RPNothingBudget ==
    ASSUME RPBudget, RP!Decide(RP!Nothing, RP!Nothing) PROVE RPBudget'
  <1>1. givers' = RP!Nothing /\ takers' = RP!Nothing /\ UNCHANGED allocated
    BY RPDecide DEF decided
  <1>2. RPChange' = [v \in Index(N) |-> 0]
    BY <1>1 DEF RPChange, RP!Change, RP!Nothing, VM, Index
  <1>3. Sum(RPChange') = 0
    BY <1>2, NIsNat, SumOfZeros
  <1>4. QED BY <1>1, <1>3 DEF RPBudget, BudgetKept

LEMMA RPTransferBudget ==
    ASSUME RPType, RPBudget, NEW t \in RP!Lowest, NEW g \in RP!Giver(t),
           NEW blk \in Int, RP!Decide([v \in {g} |-> -blk], [v \in {t} |-> blk])
    PROVE  RPBudget'
  <1>1. g \in Index(N) /\ t \in Index(N) /\ g # t
    BY DEF RP!Lowest, RP!Giver, RPType, VM, Index
  <1>2. givers' = [v \in {g} |-> -blk] /\ takers' = [v \in {t} |-> blk] /\ UNCHANGED allocated
    BY RPDecide DEF decided
  <1>3. RPChange' = [v \in Index(N) |-> IF v = g THEN -blk ELSE IF v = t THEN blk ELSE 0]
    <2>1. \A v \in Index(N) : RP!Change(v)' = IF v = g THEN -blk ELSE IF v = t THEN blk ELSE 0
      BY <1>1, <1>2 DEF RP!Change
    <2>2. QED BY <2>1 DEF RPChange, VM, Index
  <1>4. Sum(RPChange') = 0
    BY <1>1, <1>3, NIsNat, SumOfTransfer
  <1>5. QED BY <1>2, <1>4 DEF RPBudget, BudgetKept

LEMMA RPFreeTypes ==
    ASSUME RPType
    PROVE  /\ \A v \in VM : RP!FreeOf(v) \in Int
           /\ [v \in VM |-> IF v \in known THEN RP!FreeOf(v) ELSE 0] \in [Index(N) -> Int]
           /\ RP!TotalFree \in Int
           /\ RP!TotalFree = Sum([v \in VM |-> IF v \in known THEN RP!FreeOf(v) ELSE 0])
           /\ known # {} => RP!TotalFree \div Cardinality(known) \in Int
  <1>1. \A v \in VM : RP!FreeOf(v) \in Int
    BY GradientAssumption DEF RPType, RP!FreeOf, RP!Dist2low
  <1>2. [v \in VM |-> IF v \in known THEN RP!FreeOf(v) ELSE 0] \in [Index(N) -> Int]
    BY <1>1 DEF VM, Index
  <1>3. RP!TotalFree = Sum([v \in VM |-> IF v \in known THEN RP!FreeOf(v) ELSE 0])
    BY RPSum DEF RP!TotalFree, RP!VM, VM
  <1>4. RP!TotalFree \in Int
    BY <1>2, <1>3, NIsNat, SumType
  <1>5. QED BY <1>1, <1>2, <1>3, <1>4, RPCardinality, Quotient

\* meanByFree: what the shares add up to is no more than what is free.
LEMMA RPMeanBudget == ASSUME RPType, RPBudget, RP!MeanByFree PROVE RPBudget'
  <1> DEFINE n == Cardinality(known)
             m == RP!TotalFree \div n
             M == [v \in Index(N) |-> IF v \in known THEN m ELSE 0]
             F == [v \in VM |-> IF v \in known THEN RP!FreeOf(v) ELSE 0]
             D == [v \in Index(N) |-> IF v \in known THEN m - RP!FreeOf(v) ELSE 0]
  <1>1. known \in SUBSET Index(N) /\ known # {}
    BY DEF RPType, VM, Index, RP!MeanByFree, RP!Idle
  <1>2. m \in Int /\ F \in [Index(N) -> Int] /\ \A v \in Index(N) : RP!FreeOf(v) \in Int
    BY <1>1, RPFreeTypes DEF VM, Index
  <1>3. M \in [Index(N) -> Int] /\ D \in [Index(N) -> Int] /\ \A v \in Index(N) : M[v] = D[v] + F[v]
    <2> HIDE DEF m
    <2>1. M \in [Index(N) -> Int] /\ D \in [Index(N) -> Int]
      BY <1>2
    <2>2. \A v \in Index(N) : M[v] = D[v] + F[v]
      BY <1>2 DEF VM, Index
    <2>3. QED BY <2>1, <2>2
  <1>4. Sum(M) = Sum(D) + Sum(F) /\ Sum(D) \in Int /\ Sum(F) \in Int
    <2> HIDE DEF M, D, F
    <2>1. QED BY NIsNat, <1>2, <1>3, SumAdd, SumType
  <1>5. Sum(M) = m * n
    <2> HIDE DEF m
    <2>1. QED BY NIsNat, <1>1, <1>2, SumOfEqual
  <1>6. m * n <= Sum(F)
    <2>1. n \in Nat /\ n > 0 /\ RP!TotalFree \in Int /\ RP!TotalFree = Sum(F)
      BY <1>1, RPCardinality, RPFreeTypes
    <2> HIDE DEF n, F
    <2>2. m * n <= RP!TotalFree
      BY <2>1, Quotient
    <2>3. QED BY <2>1, <2>2
  <1>7. /\ givers' = [v \in {w \in known : m < RP!FreeOf(w)} |-> m - RP!FreeOf(v)]
        /\ takers' = [v \in {w \in known : m >= RP!FreeOf(w)} |-> m - RP!FreeOf(v)]
        /\ UNCHANGED allocated
    BY RPCount DEF RP!MeanByFree, RP!Decide
  <1>8. RPChange' = D
    <2> HIDE DEF m
    <2>1. ASSUME NEW v \in Index(N) PROVE RP!Change(v)' = D[v]
      <3>1. RP!FreeOf(v) \in Int
        BY <1>2
      <3>2. v \in known => D[v] = m - RP!FreeOf(v)
        OBVIOUS
      <3>3. CASE v \in known /\ m < RP!FreeOf(v)
        <4>1. v \in DOMAIN givers' /\ givers'[v] = m - RP!FreeOf(v) /\ v \notin DOMAIN takers'
          BY <1>2, <1>7, <3>1, <3>3
        <4>2. QED BY <1>2, <3>1, <3>2, <3>3, <4>1 DEF RP!Change
      <3>4. CASE v \in known /\ m >= RP!FreeOf(v)
        <4>1. v \notin DOMAIN givers' /\ takers'[v] = m - RP!FreeOf(v) /\ v \in DOMAIN takers'
          BY <1>2, <1>7, <3>1, <3>4
        <4>2. QED BY <1>2, <3>1, <3>2, <3>4, <4>1 DEF RP!Change
      <3>5. CASE v \notin known
        BY <1>7, <3>5 DEF RP!Change
      <3>6. QED BY <1>2, <3>1, <3>3, <3>4, <3>5
    <2>2. QED BY <2>1 DEF RPChange, VM, Index
  <1>9. Sum(RPChange') <= 0
    <2> HIDE DEF m, n, M, F, D
    <2>1. m * n \in Int
      BY <1>4, <1>5
    <2>2. QED BY <1>4, <1>5, <1>6, <1>8, <2>1
  <1>10. QED BY <1>7, <1>9 DEF RPBudget, BudgetKept

LEMMA RPTriggerBudget == ASSUME RPType, RPBudget, RP!TriggerBalloon PROVE RPBudget'
  <1>1. phase = "trigger" /\ phase' # "trigger"
    BY DEF RP!TriggerBalloon
  <1>2. \A v \in VM : RP!Change(v) \in Int
    BY DEF RPType, RP!Change
  <1>3. /\ allocated \in [Index(N) -> Int] /\ RPChange \in [Index(N) -> Int]
        /\ allocated' \in [Index(N) -> Int]
        /\ \A v \in Index(N) : allocated'[v] = allocated[v] + RPChange[v]
    BY <1>2 DEF RP!TriggerBalloon, RPType, RPChange, RP!VM, VM, Index
  <1>4. Sum(allocated') = Sum(allocated) + Sum(RPChange)
    BY ONLY NIsNat, <1>3, SumAdd
  <1>5. Sum(allocated) \in Int /\ Sum(RPChange) \in Int
    BY NIsNat, <1>3, SumType
  <1>6. QED BY <1>1, <1>4, <1>5, GradientAssumption DEF RPBudget, BudgetKept

LEMMA RPBudgetStep == ASSUME RPType, RPBudget, RP!Next PROVE RPBudget'
  <1>1. CASE RP!BeginRound \/ RP!UpdateInfo \/ RP!NoGuests \/ RP!ProcessBalloon
    <2>1. UNCHANGED allocated /\ phase' # "trigger"
      BY <1>1 DEF RP!BeginRound, RP!UpdateInfo, RP!NoGuests, RP!ProcessBalloon
    <2>2. QED BY <2>1 DEF RPBudget, BudgetKept
  <1>2. CASE RP!NoRate \/ RP!AllIdle
    BY <1>2, RPNothingBudget DEF RP!NoRate, RP!AllIdle
  <1>3. CASE RP!DynamicAllocate
    <2>1. CASE RP!Decide(RP!Nothing, RP!Nothing)
      BY <2>1, RPNothingBudget
    <2>2. ASSUME NEW t \in RP!Lowest, NEW g \in RP!Giver(t), NEW blk,
                 blk = RP!MinOf(RP!MinOf(RP!Dist2low(g), RP!Dist2high(t)), Min_share),
                 RP!Decide([v \in {g} |-> -blk], [v \in {t} |-> blk])
          PROVE  RPBudget'
      <3>1. allocated[g] \in Int /\ free[t] \in Nat
        BY DEF RP!Lowest, RP!Giver, RPType
      <3>2. Least \in Int /\ Max_free \in Int
        BY GradientAssumption
      <3>3. Min_share \in Int
        BY PoliciesAssumption
      <3>4. blk \in Int
        BY <2>2, <3>1, <3>2, <3>3 DEF RP!MinOf, RP!Dist2low, RP!Dist2high
      <3>5. QED BY <2>2, <3>4, RPTransferBudget
    <2>3. QED BY <1>3, <2>1, <2>2 DEF RP!DynamicAllocate
  <1>4. QED BY <1>1, <1>2, <1>3, RPFirstTimeBudget, RPMeanBudget, RPTriggerBudget DEF RP!Next

PartsBudget == IF part = "rp" THEN RPType /\ RPBudget ELSE TypeOK /\ BudgetInv

LEMMA PartsBudgetInit == PartsInit => PartsBudget
  <1> SUFFICES ASSUME PartsInit PROVE PartsBudget
    OBVIOUS
  <1>1. TypeOK /\ BudgetInv
    BY TypeInit, BudgetInit DEF PartsInit
  <1>2. part = "rp" => RPType
    BY RPInit DEF RPInv
  <1>3. phase = "wait"
    BY DEF PartsInit, RP!Init
  <1>4. QED BY <1>1, <1>2, <1>3 DEF PartsBudget, RPBudget, BudgetInv

LEMMA PartsBudgetStep == RPInv /\ PartsBudget /\ [PartsNext]_partsVars => PartsBudget'
  <1> SUFFICES ASSUME RPInv, PartsBudget, [PartsNext]_partsVars PROVE PartsBudget'
    OBVIOUS
  <1>1. CASE GradientMoves
    <2>1. part = "gradient" /\ part' = part /\ Next
      BY <1>1 DEF GradientMoves
    <2>2. QED BY <2>1, TypeStep, BudgetStep DEF PartsBudget
  <1>2. CASE RPMoves
    <2>1. part = "rp" /\ part' = part /\ RP!Next
      BY <1>2 DEF RPMoves
    <2>2. RPType'
      BY <2>1, RPStep DEF RPInv
    <2>3. QED BY <2>1, <2>2, RPBudgetStep DEF PartsBudget
  <1>3. CASE UNCHANGED <<part, sharedVars, gradientOnly, rpOnly>>
    <2>1. UNCHANGED <<vars, phase, part>>
      BY <1>3 DEF vars, sharedVars, gradientOnly, rpOnly
    <2>2. UNCHANGED <<known, listed, todo, balloon, free, speed, allocated, givers, takers,
                      target, asked>>
      BY <2>1 DEF vars, infoVars
    <2>3. CASE part = "rp"
      <3>1. RPType'
        BY <2>2, <2>3 DEF PartsBudget, RPType
      <3>2. UNCHANGED RPChange
        BY <2>2 DEF RPChange, RP!Change
      <3>3. QED BY <2>1, <2>2, <2>3, <3>1, <3>2 DEF PartsBudget, RPBudget, BudgetKept
    <2>4. CASE part # "rp"
      BY <2>1, <2>4, TypeStep, BudgetStep DEF PartsBudget
    <2>5. QED BY <2>3, <2>4
  <1>4. WFMMoves \/ FitMoves \/ VdsmMoves \/ CountersMove \/ UNCHANGED partsVars =>
            UNCHANGED <<part, sharedVars, gradientOnly, rpOnly>>
    BY DEF WFMMoves, FitMoves, VdsmMoves, CountersMove, partsVars
  <1>5. QED BY <1>1, <1>2, <1>3, <1>4 DEF PartsNext

\* The gradient policy and the RP policy hand out no more than their budget, for
\* any number of VMs and any measurements.
THEOREM NothingBeyondBudget == PartsSpec => []BudgetKept
  <1>1. PartsBudget => BudgetKept
    BY DEF PartsBudget, RPBudget, BudgetInv
  <1>2. QED
    BY <1>1, RPInit, RPStep, PartsBudgetInit, PartsBudgetStep, PTL DEF PartsSpec
-----------------------------------------------------------------------------
(* WFMPolicy, for a host with sizes s and inverse weights w, over m rounds. *)

VMs(s) == DOMAIN s
Host(s, w) == s \in Seq(Nat) /\ w \in [VMs(s) -> Nat \ {0}]
WSum(s, f, S) == Sum([v \in VMs(s) |-> IF v \in S THEN f[v] ELSE 0])

WType(s) ==
    /\ stage \in {"wait", "update", "serve"} /\ (stage # "serve" => unserved = {})
    /\ wListed \in SUBSET VMs(s) /\ wTodo \in SUBSET wListed /\ unserved \in SUBSET wListed
    /\ hungry \in SUBSET VMs(s) /\ left \in Int
    /\ wBalloon \in [VMs(s) -> Int] /\ wAsked \in [VMs(s) -> Int]
    /\ total_used \in [VMs(s) -> Int] /\ alloc \in [VMs(s) -> Int]
    /\ wFree \in [VMs(s) -> Nat] /\ swap \in [VMs(s) -> Nat]

\* While it is filled in: nothing is lost; who has been served has what it wants
\* or has used up the rest, and who uses less was served before.
Filling(s, w, m) ==
    /\ \A v \in unserved : alloc[v] = MinLoc
    /\ left < 0 => unserved = wListed
    /\ \A v \in wListed : MinLoc <= alloc[v] /\ alloc[v] <= WFM(s, w, m)!Wish(v)
    /\ \A v \in wListed \ unserved : alloc[v] = WFM(s, w, m)!Wish(v) \/ left <= 0
    /\ \A v, u \in wListed :
          WFM(s, w, m)!WeiAllo(v) < WFM(s, w, m)!WeiAllo(u) /\ alloc[u] > MinLoc
              => alloc[v] = WFM(s, w, m)!Wish(v) /\ v \notin unserved

Water(s, w, m) ==
    /\ WType(s)
    /\ stage # "wait" => left + WSum(s, alloc, wListed \ wTodo) = WfmMem
    /\ stage = "update" => \A v \in wListed \ wTodo : alloc[v] = MinLoc
    /\ stage = "serve" => wTodo = {} /\ Filling(s, w, m)

WaterInv ==
    IF part = "wfm3" THEN Water(Wfm3Sizes, Wfm3Weights, Wfm3Rounds)
                     ELSE Water(WfmSizes, WfmWeights, WfmRounds)

\* What v will have used when its next sample has been added, if that is all it
\* was given.
Uncounted(v) == stage = "wait" \/ v \in wTodo
WillHaveUsed(v) == total_used[v] + (IF Uncounted(v) THEN wAsked[v] ELSE 0)

Beyond == WfmMem - 2 * MinLoc
Large(s, v) == WfmMem <= s[v]
Equal(s, w, v, u) == w[v] = w[u] /\ s[v] = s[u] /\ Large(s, v)

\* A hungry VM has used what it was given, and its demand is beyond what is left;
\* of two equal ones the one that has used less is served first, and takes all.
IsHungry(s, v) ==
    /\ Large(s, v) => wAsked[v] >= MinLoc
    /\ stage # "wait" => v \in wListed
    /\ ~Uncounted(v) => /\ wFree[v] = 0 /\ wBalloon[v] = wAsked[v]
                        /\ \A x \in Swaps : swap[v] >= x

AreFair(v, u) ==
    /\ WillHaveUsed(v) - WillHaveUsed(u) <= Beyond
    /\ stage = "serve" /\ u # v =>
          /\ u \notin unserved => left <= 0
          /\ total_used[v] > total_used[u] => alloc[v] <= alloc[u]

Fair(s, w) ==
    /\ \A v \in hungry : IsHungry(s, v)
    /\ \A v, u \in hungry : Equal(s, w, v, u) => AreFair(v, u)

Wanted == (\E x \in Swaps : x + Overhead >= Beyond) /\ Beyond >= 0
FairInv == part = "wfm" /\ Wanted => Fair(WfmSizes, WfmWeights)

LEMMA WFMSum ==
    ASSUME NEW CONSTANT s, NEW CONSTANT w, NEW CONSTANT m, NEW f
    PROVE  WFM(s, w, m)!Sum(f) = Sum(f)
  BY DEF WFM!Sum, WFM!Prefix, Sum, Prefix

LEMMA WFMCount ==
    ASSUME NEW CONSTANT s, NEW CONSTANT w, NEW CONSTANT m, NEW S
    PROVE  WFM(s, w, m)!Cardinality(S) = Cardinality(S)
  BY DEF WFM!Cardinality, Cardinality

\* The VMs of a host are numbered.
LEMMA HostIndex ==
    ASSUME NEW CONSTANT s, NEW CONSTANT w, Host(s, w)
    PROVE  Len(s) \in Nat /\ VMs(s) = Index(Len(s))
  BY DEF Host, VMs, Index

LEMMA WSumType ==
    ASSUME NEW CONSTANT s, NEW CONSTANT w, Host(s, w), NEW f \in [VMs(s) -> Int], NEW S
    PROVE  /\ WSum(s, f, S) \in Int
           /\ [v \in VMs(s) |-> IF v \in S THEN f[v] ELSE 0] \in [Index(Len(s)) -> Int]
  <1>1. [v \in VMs(s) |-> IF v \in S THEN f[v] ELSE 0] \in [VMs(s) -> Int]
    OBVIOUS
  <1>2. QED BY <1>1, HostIndex, SumType DEF WSum

LEMMA HostSizes ==
    ASSUME NEW CONSTANT s, NEW CONSTANT w, Host(s, w)
    PROVE  s \in [VMs(s) -> Nat] /\ \A v \in VMs(s) : s[v] \in Nat
  BY DEF Host, VMs

\* One VM is counted too.
LEMMA WSumCount ==
    ASSUME NEW CONSTANT s, NEW CONSTANT w, Host(s, w), NEW f \in [VMs(s) -> Int], NEW g \in [VMs(s) -> Int],
           NEW S, NEW i \in VMs(s), i \notin S, \A v \in S : g[v] = f[v]
    PROVE  WSum(s, g, S \cup {i}) = WSum(s, f, S) + g[i]
  <1> DEFINE F == [v \in VMs(s) |-> IF v \in S THEN f[v] ELSE 0]
             G == [v \in VMs(s) |-> IF v \in S \cup {i} THEN g[v] ELSE 0]
  <1>1. F \in [Index(Len(s)) -> Int] /\ G \in [Index(Len(s)) -> Int]
    BY WSumType
  <1>2. i \in Index(Len(s)) /\ Len(s) \in Nat /\ g[i] \in Int
    BY HostIndex
  <1>3. G[i] = F[i] + g[i]
    OBVIOUS
  <1>4. \A v \in VMs(s) : v # i => G[v] = F[v]
    OBVIOUS
  <1>5. \A v \in Index(Len(s)) : v # i => G[v] = F[v]
    BY <1>4, HostIndex
  <1> HIDE DEF F, G
  <1>6. Sum(G) = Sum(F) + g[i]
    BY <1>1, <1>2, <1>3, <1>5, SumOfChange
  <1>7. QED BY <1>6 DEF WSum, F, G

\* One VM gets more.
LEMMA WSumMore ==
    ASSUME NEW CONSTANT s, NEW CONSTANT w, Host(s, w), NEW f \in [VMs(s) -> Int], NEW g \in [VMs(s) -> Int],
           NEW S, NEW i \in S, i \in VMs(s), \A v \in S : v # i => g[v] = f[v]
    PROVE  WSum(s, g, S) = WSum(s, f, S) + (g[i] - f[i])
  <1> DEFINE F == [v \in VMs(s) |-> IF v \in S THEN f[v] ELSE 0]
             G == [v \in VMs(s) |-> IF v \in S THEN g[v] ELSE 0]
  <1>1. F \in [Index(Len(s)) -> Int] /\ G \in [Index(Len(s)) -> Int]
    BY WSumType
  <1>2. i \in Index(Len(s)) /\ Len(s) \in Nat /\ g[i] - f[i] \in Int
    BY HostIndex
  <1>3. G[i] = F[i] + (g[i] - f[i])
    OBVIOUS
  <1>4. \A v \in VMs(s) : v # i => G[v] = F[v]
    OBVIOUS
  <1>5. \A v \in Index(Len(s)) : v # i => G[v] = F[v]
    BY <1>4, HostIndex
  <1> HIDE DEF F, G
  <1>6. Sum(G) = Sum(F) + (g[i] - f[i])
    BY <1>1, <1>2, <1>3, <1>5, SumOfChange
  <1>7. QED BY <1>6 DEF WSum, F, G

\* What is wanted and used are numbers, which only the loop over the guests
\* changes.
LEMMA WFMNumbers ==
    ASSUME NEW CONSTANT s, NEW CONSTANT w, NEW CONSTANT m, Host(s, w), WType(s), NEW v \in VMs(s)
    PROVE  /\ WFM(s, w, m)!Demand(v) \in Int /\ WFM(s, w, m)!WeiAllo(v) \in Int
           /\ WFM(s, w, m)!Wish(v) \in Int /\ MinLoc <= WFM(s, w, m)!Wish(v)
           /\ MinLoc \in Nat
  <1>1. wBalloon[v] \in Int /\ wFree[v] \in Nat /\ swap[v] \in Nat /\ total_used[v] \in Int
    BY DEF WType
  <1>2. Overhead \in Nat
    BY GradientAssumption
  <1>3. MinLoc \in Nat
    BY PoliciesAssumption
  <1>4. WFM(s, w, m)!Demand(v) \in Int
    BY <1>1, <1>2 DEF WFM!Demand, WFM!Used
  <1>5. WFM(s, w, m)!WeiAllo(v) \in Int
    <2>1. w[v] \in Int
      BY DEF Host
    <2>2. QED BY <1>1, <2>1 DEF WFM!WeiAllo
  <1>6. QED BY <1>3, <1>4, <1>5 DEF WFM!Wish

sampled == <<wListed, wBalloon, wFree, swap, total_used>>

LEMMA WFMUnchanged ==
    ASSUME NEW CONSTANT s, NEW CONSTANT w, NEW CONSTANT m, UNCHANGED sampled, NEW CONSTANT v
    PROVE  /\ WFM(s, w, m)!Demand(v)' = WFM(s, w, m)!Demand(v)
           /\ WFM(s, w, m)!WeiAllo(v)' = WFM(s, w, m)!WeiAllo(v)
           /\ WFM(s, w, m)!Wish(v)' = WFM(s, w, m)!Wish(v)
  BY DEF sampled, WFM!Demand, WFM!Used, WFM!WeiAllo, WFM!Wish

LEMMA WFMInit ==
    ASSUME NEW CONSTANT s, NEW CONSTANT w, NEW CONSTANT m, Host(s, w), WFM(s, w, m)!Init
    PROVE  Water(s, w, m)
  <1> USE DEF WFM!Init
  <1>1. s \in [VMs(s) -> Int]
    BY HostSizes
  <1>2. wBalloon = s /\ wAsked = s /\ stage = "wait" /\ wListed = {} /\ wTodo = {}
        /\ unserved = {} /\ hungry = VMs(s) /\ left = 0
    BY DEF WFM!VM, VMs
  <1>3. /\ total_used \in [VMs(s) -> Int] /\ alloc \in [VMs(s) -> Int]
        /\ wFree \in [VMs(s) -> Nat] /\ swap \in [VMs(s) -> Nat]
    BY DEF WFM!VM, VMs
  <1>4. WType(s)
    BY ONLY <1>1, <1>2, <1>3 DEF WType
  <1>5. QED BY <1>2, <1>4 DEF Water

LEMMA WFMBegin ==
    ASSUME NEW CONSTANT s, NEW CONSTANT w, NEW CONSTANT m, Host(s, w), Water(s, w, m),
           WFM(s, w, m)!BeginRound
    PROVE  Water(s, w, m)'
  <1>1. /\ stage = "wait" /\ stage' = "update" /\ wListed' \in SUBSET VMs(s) /\ wTodo' = wListed'
        /\ left' = WfmMem /\ hungry' = hungry \cap wListed'
        /\ UNCHANGED <<wBalloon, wFree, wAsked, swap, total_used, unserved, alloc>>
    BY DEF WFM!BeginRound, WFM!VM, VMs
  <1>2. WfmMem \in Nat
    BY PoliciesAssumption
  <1>3. WType(s)'
    BY <1>1, <1>2 DEF Water, WType
  <1>4. WSum(s, alloc', wListed' \ wTodo') = 0
    <2>1. WSum(s, alloc', wListed' \ wTodo') = Sum([v \in Index(Len(s)) |-> 0])
      BY <1>1, HostIndex DEF WSum
    <2>2. QED BY <2>1, HostIndex, SumOfZeros
  <1>5. QED BY <1>1, <1>2, <1>3, <1>4 DEF Water

LEMMA WFMUpdate ==
    ASSUME NEW CONSTANT s, NEW CONSTANT w, NEW CONSTANT m, Host(s, w), Water(s, w, m),
           WFM(s, w, m)!UpdateInfo
    PROVE  Water(s, w, m)'
  <1> DEFINE v == WFM(s, w, m)!First(wTodo)
  <1>1. /\ stage = "update" /\ wTodo # {} /\ wTodo' = wTodo \ {v}
        /\ \E b \in {wBalloon[v], wAsked[v], s[v]} : wBalloon' = [wBalloon EXCEPT ![v] = b]
        /\ \E f \in WfmFrees : wFree' = [wFree EXCEPT ![v] = f]
        /\ \E x \in Swaps : swap' = [swap EXCEPT ![v] = x]
        /\ alloc' = [alloc EXCEPT ![v] = MinLoc] /\ left' = left - MinLoc
        /\ total_used' = [total_used EXCEPT ![v] = @ + wBalloon'[v] - wFree'[v]]
        /\ hungry' \in SUBSET hungry
        /\ UNCHANGED <<stage, wListed, wAsked, unserved>>
    BY DEF WFM!UpdateInfo
  <1>2. v \in wTodo /\ v \in wListed /\ v \in VMs(s)
    <2>1. wTodo \in SUBSET Nat /\ wTodo \in SUBSET wListed /\ wListed \in SUBSET VMs(s)
      BY HostIndex DEF Water, WType, Index
    <2>2. First(wTodo) \in wTodo
      BY <1>1, <2>1, FirstOfNumbers
    <2>3. v = First(wTodo)
      BY DEF WFM!First, First
    <2>4. QED BY <2>1, <2>2, <2>3
  <1> HIDE DEF v
  <1>3. MinLoc \in Nat /\ WfmFrees \subseteq Nat /\ Swaps \subseteq Nat
    BY PoliciesAssumption
  <1>4. WType(s)
    BY DEF Water
  <1>5. wBalloon' \in [VMs(s) -> Int]
    <2>1. wBalloon[v] \in Int /\ wAsked[v] \in Int /\ s[v] \in Int
      BY <1>2, <1>4, HostSizes DEF WType
    <2>2. QED BY <1>1, <1>2, <1>4, <2>1 DEF WType
  <1>6. wFree' \in [VMs(s) -> Nat] /\ swap' \in [VMs(s) -> Nat]
    BY <1>1, <1>2, <1>3, <1>4 DEF WType
  <1>7. alloc' \in [VMs(s) -> Int] /\ left' \in Int
    BY <1>1, <1>2, <1>3, <1>4 DEF WType
  <1>8. total_used' \in [VMs(s) -> Int]
    <2>1. total_used[v] + wBalloon'[v] - wFree'[v] \in Int
      BY <1>2, <1>4, <1>5, <1>6 DEF WType
    <2>2. QED BY <1>1, <1>2, <1>4, <2>1 DEF WType
  <1>9. WType(s)'
    BY <1>1, <1>4, <1>5, <1>6, <1>7, <1>8 DEF WType
  <1>10. WSum(s, alloc', wListed' \ wTodo') = WSum(s, alloc, wListed \ wTodo) + MinLoc
    <2>1. alloc \in [VMs(s) -> Int] /\ alloc'[v] = MinLoc /\ v \notin wListed \ wTodo
          /\ wListed' \ wTodo' = (wListed \ wTodo) \cup {v}
      BY <1>1, <1>2, <1>4 DEF WType
    <2>2. \A x \in wListed \ wTodo : alloc'[x] = alloc[x]
      BY <1>1, <1>2, <1>4 DEF WType
    <2> DEFINE S == wListed \ wTodo
    <2>3. v \notin S /\ \A x \in S : alloc'[x] = alloc[x]
      BY <2>1, <2>2
    <2> HIDE DEF S
    <2>4. WSum(s, alloc', S \cup {v}) = WSum(s, alloc, S) + alloc'[v]
      BY ONLY Host(s, w), <1>2, <1>7, <2>1, <2>3, WSumCount
    <2>5. QED BY <2>1, <2>4 DEF S
  <1>11. left' + WSum(s, alloc', wListed' \ wTodo') = WfmMem
    <2>1. left + WSum(s, alloc, wListed \ wTodo) = WfmMem /\ left \in Int
          /\ WSum(s, alloc, wListed \ wTodo) \in Int
      BY <1>1, <1>4, WSumType DEF Water, WType
    <2>2. QED BY <1>1, <1>3, <1>10, <2>1
  <1>12. \A x \in wListed' \ wTodo' : alloc'[x] = MinLoc
    <2>1. \A x \in wListed \ wTodo : alloc[x] = MinLoc
      BY <1>1 DEF Water
    <2>2. QED BY <1>1, <1>2, <1>4, <2>1 DEF WType
  <1>13. stage' = "update"
    BY <1>1
  <1>14. QED BY <1>9, <1>11, <1>12, <1>13 DEF Water

LEMMA WFMRank ==
    ASSUME NEW CONSTANT s, NEW CONSTANT w, NEW CONSTANT m, Host(s, w), Water(s, w, m),
           WFM(s, w, m)!Rank
    PROVE  Water(s, w, m)'
  <1>1. /\ stage = "update" /\ wTodo = {} /\ stage' = "serve" /\ unserved' = wListed
        /\ UNCHANGED <<wListed, wTodo, wBalloon, wFree, wAsked, swap, total_used, left, alloc, hungry>>
    BY DEF WFM!Rank
  <1>2. WType(s)
    BY DEF Water
  <1>3. WType(s)'
    BY <1>1, <1>2 DEF WType
  <1>4. \A v \in wListed : /\ alloc'[v] = MinLoc /\ MinLoc \in Nat
                           /\ WFM(s, w, m)!Wish(v)' \in Int /\ MinLoc <= WFM(s, w, m)!Wish(v)'
    <2> TAKE v \in wListed
    <2>1. alloc[v] = MinLoc /\ v \in VMs(s)
      BY <1>1, <1>2 DEF Water, WType
    <2>2. WFM(s, w, m)!Wish(v)' = WFM(s, w, m)!Wish(v)
      BY <1>1, WFMUnchanged DEF sampled
    <2>3. WFM(s, w, m)!Wish(v) \in Int /\ MinLoc <= WFM(s, w, m)!Wish(v) /\ MinLoc \in Nat
      BY <1>2, <2>1, WFMNumbers
    <2>4. QED BY <1>1, <2>1, <2>2, <2>3
  <1>5. Filling(s, w, m)'
    BY <1>1, <1>4 DEF Filling
  <1>6. left + WSum(s, alloc, wListed \ wTodo) = WfmMem
    BY <1>1 DEF Water
  <1>7. left' + WSum(s, alloc', wListed' \ wTodo') = WfmMem
    BY <1>1, <1>6
  <1>8. stage' = "serve" /\ wTodo' = {}
    BY <1>1
  <1>9. QED BY <1>3, <1>5, <1>7, <1>8 DEF Water

\* What serving v changes.
Served(s, w, m, v, more) ==
    /\ v \in unserved /\ \A u \in unserved : WFM(s, w, m)!WeiAllo(v) <= WFM(s, w, m)!WeiAllo(u)
    /\ more \in Nat /\ more <= left /\ MinLoc + more <= WFM(s, w, m)!Wish(v)
    /\ MinLoc + more = WFM(s, w, m)!Wish(v) \/ more = left
    /\ stage = "serve" /\ left > 0
    /\ unserved' = unserved \ {v} /\ left' = left - more
    /\ alloc' = [alloc EXCEPT ![v] = @ + more]
    /\ UNCHANGED <<stage, wListed, wTodo, wBalloon, wFree, wAsked, swap, total_used, hungry>>

LEMMA WFMServed ==
    ASSUME NEW CONSTANT s, NEW CONSTANT w, NEW CONSTANT m, Host(s, w), WType(s),
           WFM(s, w, m)!Serve
    PROVE  \E v \in VMs(s) : \E more \in Nat : Served(s, w, m, v, more)
  <1>1. PICK v \in WFM(s, w, m)!Lowest :
           LET more == IF WFM(s, w, m)!Demand(v) <= MinLoc THEN 0
                       ELSE IF WFM(s, w, m)!Demand(v) - MinLoc > left THEN left
                       ELSE WFM(s, w, m)!Demand(v) - MinLoc
           IN  /\ unserved' = unserved \ {v}
               /\ alloc' = [alloc EXCEPT ![v] = @ + more] /\ left' = left - more
    BY DEF WFM!Serve
  <1>2. v \in unserved /\ \A u \in unserved : WFM(s, w, m)!WeiAllo(v) <= WFM(s, w, m)!WeiAllo(u)
    BY DEF WFM!Lowest
  <1>3. v \in VMs(s)
    BY <1>2 DEF WType
  <1>4. stage = "serve" /\ left > 0
        /\ UNCHANGED <<stage, wListed, wTodo, wBalloon, wFree, wAsked, swap, total_used, hungry>>
    BY DEF WFM!Serve
  <1>5. WFM(s, w, m)!Demand(v) \in Int /\ MinLoc \in Nat /\ left \in Int
    BY <1>3, WFMNumbers DEF WType
  <1> DEFINE d == WFM(s, w, m)!Demand(v)
             more == IF d <= MinLoc THEN 0 ELSE IF d - MinLoc > left THEN left ELSE d - MinLoc
             wish == IF d > MinLoc THEN d ELSE MinLoc
  <1>6. WFM(s, w, m)!Wish(v) = wish
    BY DEF WFM!Wish
  <1>7. unserved' = unserved \ {v} /\ alloc' = [alloc EXCEPT ![v] = @ + more] /\ left' = left - more
    BY <1>1
  <1>8. /\ more \in Nat /\ more <= left /\ MinLoc + more <= wish
        /\ MinLoc + more = wish \/ more = left
    <2> HIDE DEF d
    <2>1. d \in Int
      BY <1>5 DEF d
    <2>2. QED BY <1>4, <1>5, <2>1
  <1> HIDE DEF more, wish
  <1>9. Served(s, w, m, v, more)
    BY <1>2, <1>4, <1>6, <1>7, <1>8 DEF Served
  <1>10. QED BY <1>3, <1>8, <1>9

LEMMA WFMServe ==
    ASSUME NEW CONSTANT s, NEW CONSTANT w, NEW CONSTANT m, Host(s, w), Water(s, w, m),
           WFM(s, w, m)!Serve
    PROVE  Water(s, w, m)'
  <1>1. WType(s)
    BY DEF Water
  <1>2. PICK v \in VMs(s) : \E more \in Nat : Served(s, w, m, v, more)
    BY <1>1, WFMServed
  <1>3. PICK more \in Nat : Served(s, w, m, v, more)
    BY <1>2
  <1>4. /\ v \in unserved /\ v \in wListed /\ stage = "serve" /\ left > 0 /\ more <= left
        /\ unserved' = unserved \ {v} /\ left' = left - more
        /\ alloc' = [alloc EXCEPT ![v] = @ + more]
        /\ UNCHANGED <<stage, wListed, wTodo, wBalloon, wFree, wAsked, swap, total_used, hungry>>
    BY <1>1, <1>3 DEF Served, WType
  <1>5. Filling(s, w, m) /\ wTodo = {}
    BY <1>4 DEF Water
  <1>6. left \in Int /\ MinLoc \in Nat /\ alloc[v] = MinLoc /\ alloc'[v] = MinLoc + more
        /\ \A x \in VMs(s) : x # v => alloc'[x] = alloc[x]
    BY <1>1, <1>2, <1>4, <1>5, PoliciesAssumption DEF WType, Filling
  <1>7. WType(s)'
    BY <1>1, <1>2, <1>4, <1>6 DEF WType
  <1>8. left' + WSum(s, alloc', wListed' \ wTodo') = WfmMem
    <2>1. left + WSum(s, alloc, wListed) = WfmMem
      BY <1>4, <1>5 DEF Water
    <2>2. \A x \in wListed : x # v => alloc'[x] = alloc[x]
      BY <1>1, <1>6 DEF WType
    <2>3. alloc \in [VMs(s) -> Int] /\ alloc' \in [VMs(s) -> Int]
      BY <1>1, <1>7 DEF WType
    <2>4. v \in wListed
      BY <1>4
    <2>5. WSum(s, alloc', wListed) = WSum(s, alloc, wListed) + (alloc'[v] - alloc[v])
      BY ONLY Host(s, w), <1>2, <2>2, <2>3, <2>4, WSumMore
    <2>6. WSum(s, alloc, wListed) \in Int
      BY ONLY Host(s, w), <2>3, WSumType
    <2>7. left' = left - more /\ alloc'[v] - alloc[v] = more /\ WfmMem \in Int
      BY <1>4, <1>6, PoliciesAssumption
    <2>8. left' + WSum(s, alloc', wListed) = WfmMem
      <3> DEFINE a == WSum(s, alloc, wListed)
                 b == WSum(s, alloc', wListed)
      <3>1. left + a = WfmMem /\ b = a + (alloc'[v] - alloc[v]) /\ a \in Int
        BY <2>1, <2>5, <2>6
      <3> HIDE DEF a, b
      <3>2. b = a + more
        BY <2>7, <3>1
      <3>3. left' + b = WfmMem
        BY <1>6, <2>7, <3>1, <3>2
      <3>4. QED BY <3>3 DEF b
    <2>9. wListed' \ wTodo' = wListed
      BY <1>4, <1>5
    <2>10. QED BY <2>8, <2>9
  <1>9. \A x \in wListed : /\ x \in VMs(s) /\ alloc[x] \in Int /\ alloc'[x] \in Int
                           /\ WFM(s, w, m)!Wish(x)' = WFM(s, w, m)!Wish(x)
                           /\ WFM(s, w, m)!WeiAllo(x)' = WFM(s, w, m)!WeiAllo(x)
                           /\ WFM(s, w, m)!Wish(x) \in Int /\ WFM(s, w, m)!WeiAllo(x) \in Int
    <2> TAKE x \in wListed
    <2>1. x \in VMs(s) /\ alloc[x] \in Int /\ alloc'[x] \in Int
      BY <1>1, <1>7 DEF WType
    <2>2. WFM(s, w, m)!Wish(x)' = WFM(s, w, m)!Wish(x)
          /\ WFM(s, w, m)!WeiAllo(x)' = WFM(s, w, m)!WeiAllo(x)
      BY <1>4, WFMUnchanged DEF sampled
    <2>3. WFM(s, w, m)!Wish(x) \in Int /\ WFM(s, w, m)!WeiAllo(x) \in Int
      BY <1>1, <2>1, WFMNumbers
    <2>4. QED BY <2>1, <2>2, <2>3
  <1>10. Filling(s, w, m)'
    <2>1. \A x \in unserved' : alloc'[x] = MinLoc
      BY <1>1, <1>4, <1>5, <1>6 DEF Filling, WType
    <2>2. ~(left' < 0)
      BY <1>4, <1>6
    <2>3. MinLoc + more <= WFM(s, w, m)!Wish(v)
          /\ (MinLoc + more = WFM(s, w, m)!Wish(v) \/ more = left)
          /\ \A u \in unserved : WFM(s, w, m)!WeiAllo(v) <= WFM(s, w, m)!WeiAllo(u)
      BY <1>3 DEF Served
    <2>4. \A x \in wListed : MinLoc <= alloc'[x] /\ alloc'[x] <= WFM(s, w, m)!Wish(x)
      BY <1>5, <1>6, <1>9, <2>3 DEF Filling
    <2>5. \A x \in wListed \ unserved' : alloc'[x] = WFM(s, w, m)!Wish(x) \/ left' <= 0
      <3> TAKE x \in wListed \ unserved'
      <3>1. CASE x = v
        BY <1>4, <1>6, <2>3, <3>1
      <3>2. CASE x # v
        BY <1>4, <1>5, <1>6, <1>9, <3>2 DEF Filling
      <3>3. QED BY <3>1, <3>2
    <2>6. ASSUME NEW x \in wListed, NEW u \in wListed,
                 WFM(s, w, m)!WeiAllo(x) < WFM(s, w, m)!WeiAllo(u), alloc'[u] > MinLoc
          PROVE  alloc'[x] = WFM(s, w, m)!Wish(x) /\ x \notin unserved'
      <3>1. CASE u = v
        <4>1. x \notin unserved
          BY <1>9, <2>3, <2>6, <3>1
        <4>2. x # v /\ alloc[x] = WFM(s, w, m)!Wish(x)
          BY <1>4, <1>5, <1>6, <4>1 DEF Filling
        <4>3. QED BY <1>4, <1>6, <1>9, <4>1, <4>2
      <3>2. CASE u # v
        <4>1. alloc[u] > MinLoc
          BY <1>6, <1>9, <2>6, <3>2
        <4>2. alloc[x] = WFM(s, w, m)!Wish(x) /\ x \notin unserved
          BY <1>5, <2>6, <4>1 DEF Filling
        <4>3. QED BY <1>4, <1>6, <1>9, <4>2
      <3>3. QED BY <3>1, <3>2
    <2>7. QED BY <1>4, <1>9, <2>1, <2>2, <2>4, <2>5, <2>6 DEF Filling
  <1>11. stage' = "serve" /\ wTodo' = {}
    BY <1>4, <1>5
  <1>12. QED BY <1>7, <1>8, <1>10, <1>11 DEF Water

LEMMA WFMSet ==
    ASSUME NEW CONSTANT s, NEW CONSTANT w, NEW CONSTANT m, Host(s, w), Water(s, w, m),
           WFM(s, w, m)!SetBalloons
    PROVE  Water(s, w, m)'
  <1>1. /\ stage' = "wait" /\ unserved' = {}
        /\ wAsked' = [v \in VMs(s) |-> IF v \in wListed /\ MinLoc <= alloc[v] /\ alloc[v] <= s[v]
                                       THEN alloc[v] ELSE wAsked[v]]
        /\ UNCHANGED <<wListed, wTodo, wBalloon, wFree, swap, total_used, left, alloc, hungry>>
    BY DEF WFM!SetBalloons, WFM!VM, VMs
  <1>2. WType(s)
    BY DEF Water
  <1>3. wAsked' \in [VMs(s) -> Int]
    BY <1>1, <1>2 DEF WType
  <1>4. WType(s)'
    BY <1>1, <1>2, <1>3 DEF WType
  <1>5. QED BY <1>1, <1>4 DEF Water

LEMMA WFMStep ==
    ASSUME NEW CONSTANT s, NEW CONSTANT w, NEW CONSTANT m, Host(s, w), Water(s, w, m),
           WFM(s, w, m)!Next
    PROVE  Water(s, w, m)'
  BY WFMBegin, WFMUpdate, WFMRank, WFMServe, WFMSet DEF WFM!Next

LEMMA WFMStutter ==
    ASSUME NEW CONSTANT s, NEW CONSTANT w, NEW CONSTANT m, Water(s, w, m), UNCHANGED wfmVars
    PROVE  Water(s, w, m)'
  <1>1. UNCHANGED <<stage, wListed, wTodo, wBalloon, wFree, wAsked, swap, total_used,
                    left, unserved, alloc, hungry>>
    BY DEF wfmVars
  <1>2. WType(s)'
    BY <1>1 DEF Water, WType
  <1>3. UNCHANGED WSum(s, alloc, wListed \ wTodo)
    BY <1>1
  <1>4. \A v \in wListed : /\ WFM(s, w, m)!Wish(v)' = WFM(s, w, m)!Wish(v)
                           /\ WFM(s, w, m)!WeiAllo(v)' = WFM(s, w, m)!WeiAllo(v)
    BY <1>1, WFMUnchanged DEF sampled
  <1>5. stage = "serve" => Filling(s, w, m)'
    BY <1>1, <1>4 DEF Water, Filling
  <1>6. QED BY <1>1, <1>2, <1>3, <1>5 DEF Water

\* Once the loop over the ranking has ended, it is filled in.
LEMMA WFMFilled ==
    ASSUME NEW CONSTANT s, NEW CONSTANT w, NEW CONSTANT m, Host(s, w), Water(s, w, m)
    PROVE  WFM(s, w, m)!WaterFilled
  <1> SUFFICES ASSUME WFM(s, w, m)!Done PROVE WFM(s, w, m)!WaterFilled
    BY DEF WFM!WaterFilled
  <1> DEFINE wish == [v \in VMs(s) |-> WFM(s, w, m)!Wish(v)]
             A == WSum(s, alloc, wListed)
             W == WSum(s, wish, wListed)
             C == Cardinality(wListed)
  <1>1. stage = "serve" /\ (left <= 0 \/ unserved = {})
    BY DEF WFM!Done
  <1>2. WType(s) /\ wTodo = {} /\ Filling(s, w, m) /\ left + A = WfmMem
    BY <1>1 DEF Water
  <1>3. /\ wListed \in SUBSET VMs(s) /\ left \in Int /\ WfmMem \in Nat /\ MinLoc \in Nat
        /\ alloc \in [VMs(s) -> Int]
    BY <1>2, PoliciesAssumption DEF WType
  <1>4. wish \in [VMs(s) -> Int]
    BY <1>2, WFMNumbers
  <1>5. /\ Len(s) \in Nat /\ VMs(s) = Index(Len(s)) /\ wListed \in SUBSET Index(Len(s))
    BY <1>3, HostIndex
  <1>6. C \in Nat
    <2>1. IsFiniteSet(Index(Len(s)))
      BY <1>5, FS_Interval DEF Index
    <2>2. IsFiniteSet(wListed)
      BY <1>5, <2>1, FS_Subset
    <2>3. QED BY <2>2, FS_CardinalityType
  <1> DEFINE fa == [v \in VMs(s) |-> IF v \in wListed THEN alloc[v] ELSE 0]
             fw == [v \in VMs(s) |-> IF v \in wListed THEN wish[v] ELSE 0]
             fl == [v \in VMs(s) |-> IF v \in wListed THEN MinLoc ELSE 0]
  <1>7. /\ A = Sum(fa) /\ W = Sum(fw) /\ A \in Int /\ W \in Int
        /\ fa \in [Index(Len(s)) -> Int] /\ fw \in [Index(Len(s)) -> Int]
    <2> HIDE DEF wish
    <2>1. A = Sum(fa) /\ W = Sum(fw)
      BY DEF WSum
    <2> HIDE DEF A, W
    <2>2. WSum(s, alloc, wListed) \in Int /\ fa \in [Index(Len(s)) -> Int]
      BY ONLY Host(s, w), <1>3, WSumType
    <2>3. WSum(s, wish, wListed) \in Int /\ fw \in [Index(Len(s)) -> Int]
      BY ONLY Host(s, w), <1>4, WSumType
    <2>4. QED BY <2>1, <2>2, <2>3 DEF A, W
  <1>8. Sum(fl) = MinLoc * C /\ fl \in [Index(Len(s)) -> Int]
    <2>1. fl = [v \in Index(Len(s)) |-> IF v \in wListed THEN MinLoc ELSE 0]
      BY <1>5
    <2>2. MinLoc \in Int
      BY <1>3
    <2>3. Sum([v \in Index(Len(s)) |-> IF v \in wListed THEN MinLoc ELSE 0]) = MinLoc * C
      BY ONLY <1>5, <2>2, SumOfEqual
    <2>4. fl \in [VMs(s) -> Int]
      BY <2>2
    <2>5. QED BY <1>5, <2>1, <2>3, <2>4
  <1>9. \A v \in wListed : /\ MinLoc <= alloc[v] /\ alloc[v] <= wish[v]
                           /\ wish[v] = WFM(s, w, m)!Wish(v)
    BY <1>2, <1>3 DEF Filling
  <1>10. A <= W /\ MinLoc * C <= A
    <2>1. \A v \in VMs(s) : fl[v] <= fa[v] /\ fa[v] <= fw[v]
      <3> HIDE DEF wish
      <3> TAKE v \in VMs(s)
      <3>1. CASE v \in wListed
        <4>1. fl[v] = MinLoc /\ fa[v] = alloc[v] /\ fw[v] = wish[v]
          BY <3>1
        <4>2. QED BY <1>9, <3>1, <4>1
      <3>2. CASE v \notin wListed
        BY <3>2
      <3>3. QED BY <3>1, <3>2
    <2>2. \A v \in Index(Len(s)) : fl[v] <= fa[v] /\ fa[v] <= fw[v]
      BY <1>5, <2>1
    <2> HIDE DEF fa, fl, fw, A, W
    <2>3. Sum(fl) <= Sum(fa) /\ Sum(fa) <= Sum(fw)
      BY <1>5, <1>7, <1>8, <2>2, SumMonotone
    <2>4. QED BY <1>7, <1>8, <2>3
  <1>11. left > 0 => A = W
    <2> SUFFICES ASSUME left > 0 PROVE A = W
      OBVIOUS
    <2>1. unserved = {}
      BY <1>1, <1>3
    <2>2. \A v \in wListed : alloc[v] = wish[v]
      BY <1>2, <1>3, <1>9, <2>1 DEF Filling
    <2>3. fa = fw
      <3> HIDE DEF wish
      <3>1. QED BY <2>2
    <2>4. QED BY <1>7, <2>3
  <1>12. left < 0 => A = MinLoc * C
    <2> SUFFICES ASSUME left < 0 PROVE A = MinLoc * C
      OBVIOUS
    <2>1. \A v \in wListed : alloc[v] = MinLoc
      BY <1>2 DEF Filling
    <2>2. fa = fl
      BY <2>1
    <2>3. QED BY <1>7, <1>8, <2>2
  <1>13. A = IF W <= WfmMem THEN W ELSE IF C * MinLoc <= WfmMem THEN WfmMem ELSE C * MinLoc
    <2> DEFINE L == MinLoc * C
    <2>1. C * MinLoc = L /\ L \in Nat
      BY <1>3, <1>6
    <2>2. A <= W /\ L <= A /\ (left > 0 => A = W) /\ (left < 0 => A = L)
      BY <1>10, <1>11, <1>12
    <2> HIDE DEF L, A, W, C
    <2>3. QED BY <1>2, <1>3, <1>7, <2>1, <2>2
  <1>14. WFM(s, w, m)!SumOf(alloc, wListed) = A
    BY WFMSum DEF WFM!SumOf, WFM!VM, VMs, WSum
  <1>15. WFM(s, w, m)!SumOf([v \in WFM(s, w, m)!VM |-> WFM(s, w, m)!Wish(v)], wListed) = W
    BY WFMSum DEF WFM!SumOf, WFM!VM, VMs, WSum
  <1>16. WFM(s, w, m)!Cardinality(wListed) = C
    BY WFMCount
  <1>17. WFM(s, w, m)!SumOf(alloc, wListed) =
            LET wishes == WFM(s, w, m)!SumOf([v \in WFM(s, w, m)!VM |-> WFM(s, w, m)!Wish(v)], wListed)
                least == WFM(s, w, m)!Cardinality(wListed) * MinLoc
            IN  IF wishes <= WfmMem THEN wishes
                ELSE IF least <= WfmMem THEN WfmMem ELSE least
    <2> HIDE DEF A, W, C
    <2>1. QED BY <1>13, <1>14, <1>15, <1>16
  <1>18. \A v \in wListed : MinLoc <= alloc[v] /\ alloc[v] <= WFM(s, w, m)!Wish(v)
    BY <1>2 DEF Filling
  <1>19. \A v, u \in wListed :
            WFM(s, w, m)!WeiAllo(v) < WFM(s, w, m)!WeiAllo(u) /\ alloc[u] > MinLoc
                => alloc[v] = WFM(s, w, m)!Wish(v)
    BY <1>2 DEF Filling
  <1> HIDE DEF A, W, C, wish
  <1>20. QED BY <1>17, <1>18, <1>19 DEF WFM!WaterFilled

LEMMA HostsAssumption == Host(WfmSizes, WfmWeights) /\ Host(Wfm3Sizes, Wfm3Weights)
  BY PoliciesAssumption DEF Host, VMs

LEMMA WaterInit == PartsInit => WaterInv
  BY HostsAssumption, WFMInit DEF PartsInit, WaterInv

LEMMA WaterStep == WaterInv /\ [PartsNext]_partsVars => WaterInv'
  <1> SUFFICES ASSUME WaterInv, [PartsNext]_partsVars PROVE WaterInv'
    OBVIOUS
  <1>1. CASE WFMMoves
    <2>1. part' = part
      BY <1>1 DEF WFMMoves
    <2>2. CASE part = "wfm" /\ WFM(WfmSizes, WfmWeights, WfmRounds)!Next
      <3>1. Water(WfmSizes, WfmWeights, WfmRounds)
        BY <2>2 DEF WaterInv
      <3>2. Water(WfmSizes, WfmWeights, WfmRounds)'
        BY <2>2, <3>1, HostsAssumption, WFMStep
      <3>3. QED BY <2>1, <2>2, <3>2 DEF WaterInv
    <2>3. CASE part = "wfm3" /\ WFM(Wfm3Sizes, Wfm3Weights, Wfm3Rounds)!Next
      <3>1. Water(Wfm3Sizes, Wfm3Weights, Wfm3Rounds)
        BY <2>3 DEF WaterInv
      <3>2. Water(Wfm3Sizes, Wfm3Weights, Wfm3Rounds)'
        BY <2>3, <3>1, HostsAssumption, WFMStep
      <3>3. QED BY <2>1, <2>3, <3>2 DEF WaterInv
    <2>4. QED BY <1>1, <2>2, <2>3 DEF WFMMoves
  <1>2. CASE UNCHANGED <<part, wfmVars>>
    <2>1. part' = part /\ UNCHANGED wfmVars
      BY <1>2
    <2>2. CASE part = "wfm3"
      BY <2>1, <2>2, WFMStutter DEF WaterInv
    <2>3. CASE part # "wfm3"
      BY <2>1, <2>3, WFMStutter DEF WaterInv
    <2>4. QED BY <2>2, <2>3
  <1>3. GradientMoves \/ RPMoves \/ FitMoves \/ VdsmMoves \/ CountersMove \/ UNCHANGED partsVars
            => UNCHANGED <<part, wfmVars>>
    BY DEF GradientMoves, RPMoves, FitMoves, VdsmMoves, CountersMove, partsVars
  <1>4. QED BY <1>1, <1>2, <1>3 DEF PartsNext

\* The long-term fair policy fills the memory in by rank, on any host: nothing is
\* left while a VM wants more, and nothing is given that is not there but MinLoc.
THEOREM MemoryIsFilledIn == PartsSpec => []WaterFilled
  <1>1. WaterInv => WaterFilled
    <2> SUFFICES ASSUME WaterInv PROVE WaterFilled
      OBVIOUS
    <2>1. CASE part = "wfm3"
      BY <2>1, HostsAssumption, WFMFilled DEF WaterInv, WaterFilled
    <2>2. CASE part # "wfm3"
      BY <2>2, HostsAssumption, WFMFilled DEF WaterInv, WaterFilled
    <2>3. QED BY <2>1, <2>2
  <1>2. QED BY <1>1, WaterInit, WaterStep, PTL DEF PartsSpec
-----------------------------------------------------------------------------
(* What equal VMs have used. *)

LEMMA BudgetNumbers == WfmMem \in Nat /\ MinLoc \in Nat /\ Beyond \in Int
                       /\ Beyond = WfmMem - 2 * MinLoc /\ Overhead \in Nat /\ Swaps \subseteq Nat
  BY PoliciesAssumption, GradientAssumption DEF Beyond

\* What two VMs have been given is not left.
LEMMA PairIsGone ==
    ASSUME NEW CONSTANT s, NEW CONSTANT w, NEW CONSTANT m, Host(s, w), Water(s, w, m), stage = "serve",
           NEW v \in wListed, NEW u \in wListed, v # u
    PROVE  left + alloc[v] + alloc[u] <= WfmMem
  <1> DEFINE A == WSum(s, alloc, wListed)
             P == WSum(s, alloc, {} \cup {v} \cup {u})
  <1>1. WType(s) /\ Filling(s, w, m) /\ left + A = WfmMem
    BY DEF Water
  <1>2. alloc \in [VMs(s) -> Int] /\ left \in Int /\ v \in VMs(s) /\ u \in VMs(s)
    BY <1>1 DEF WType
  <1>3. A \in Int /\ P \in Int
    BY ONLY Host(s, w), <1>2, WSumType
  <1>4. P = alloc[v] + alloc[u]
    <2> DEFINE Z == {}
               V == Z \cup {v}
    <2>1. WSum(s, alloc, Z) = 0
      <3>1. WSum(s, alloc, Z) = Sum([x \in Index(Len(s)) |-> 0])
        BY HostIndex DEF WSum
      <3>2. QED BY <3>1, HostIndex, SumOfZeros
    <2>2. v \notin Z /\ (\A x \in Z : alloc[x] = alloc[x]) /\ u \notin V /\ \A x \in V : alloc[x] = alloc[x]
      OBVIOUS
    <2> HIDE DEF Z
    <2>3. WSum(s, alloc, V) = WSum(s, alloc, Z) + alloc[v]
      BY ONLY Host(s, w), <1>2, <2>2, WSumCount
    <2> HIDE DEF V
    <2>4. WSum(s, alloc, V \cup {u}) = WSum(s, alloc, V) + alloc[u]
      BY ONLY Host(s, w), <1>2, <2>2, WSumCount
    <2>5. P = WSum(s, alloc, V \cup {u})
      BY DEF V, Z
    <2>6. alloc[v] \in Int /\ alloc[u] \in Int
      BY <1>2
    <2>7. WSum(s, alloc, V) = alloc[v]
      BY <2>1, <2>3, <2>6
    <2> HIDE DEF P
    <2>8. QED BY <2>4, <2>5, <2>6, <2>7
  <1>5. P <= A
    <2> DEFINE fp == [x \in VMs(s) |-> IF x \in {} \cup {v} \cup {u} THEN alloc[x] ELSE 0]
               fa == [x \in VMs(s) |-> IF x \in wListed THEN alloc[x] ELSE 0]
    <2>1. fp \in [Index(Len(s)) -> Int] /\ fa \in [Index(Len(s)) -> Int] /\ Len(s) \in Nat
      BY ONLY Host(s, w), <1>2, WSumType, HostIndex
    <2>2. \A x \in wListed : alloc[x] \in Int /\ alloc[x] >= 0
      <3>1. \A x \in wListed : alloc[x] \in Int /\ MinLoc <= alloc[x]
        BY <1>1, <1>2 DEF Filling, WType
      <3>2. QED BY <3>1, BudgetNumbers
    <2>3. \A x \in VMs(s) : fp[x] <= fa[x]
      BY <1>2, <2>2
    <2>4. \A x \in Index(Len(s)) : fp[x] <= fa[x]
      BY <2>3, HostIndex
    <2>5. P = Sum(fp) /\ A = Sum(fa)
      BY DEF WSum
    <2> HIDE DEF fp, fa, P, A
    <2>6. QED BY <2>1, <2>4, <2>5, SumMonotone
  <1>6. alloc[v] \in Int /\ alloc[u] \in Int
    BY <1>2
  <1> HIDE DEF A, P
  <1>7. QED BY <1>1, <1>2, <1>3, <1>4, <1>5, <1>6, BudgetNumbers

LEMMA FairInit ==
    ASSUME NEW CONSTANT s, NEW CONSTANT w, NEW CONSTANT m, Host(s, w), WFM(s, w, m)!Init, Wanted
    PROVE  Fair(s, w)
  <1>1. wAsked = s /\ stage = "wait" /\ hungry = VMs(s) /\ total_used = [v \in VMs(s) |-> 0]
    BY DEF WFM!Init, WFM!VM, VMs
  <1>2. \A v \in VMs(s) : WillHaveUsed(v) = s[v] /\ s[v] \in Nat
    BY <1>1, HostSizes DEF WillHaveUsed, Uncounted
  <1>3. \A v \in VMs(s) : IsHungry(s, v)
    <2> TAKE v \in VMs(s)
    <2>1. Large(s, v) => s[v] >= MinLoc
      BY <1>2, BudgetNumbers DEF Large, Wanted
    <2>2. QED BY <1>1, <2>1 DEF IsHungry, Uncounted
  <1>4. \A v, u \in VMs(s) : Equal(s, w, v, u) => AreFair(v, u)
    BY <1>1, <1>2, BudgetNumbers DEF Equal, AreFair, Wanted
  <1>5. QED BY <1>1, <1>3, <1>4 DEF Fair

LEMMA FairBegin ==
    ASSUME NEW CONSTANT s, NEW CONSTANT w, NEW CONSTANT m, Fair(s, w), WFM(s, w, m)!BeginRound
    PROVE  Fair(s, w)'
  <1>1. /\ stage = "wait" /\ stage' = "update" /\ wTodo' = wListed'
        /\ hungry' = hungry \cap wListed' /\ UNCHANGED <<wAsked, total_used>>
    BY DEF WFM!BeginRound
  <1>2. \A v \in hungry' : v \in hungry /\ v \in wListed' /\ Uncounted(v) /\ Uncounted(v)'
    BY <1>1 DEF Uncounted
  <1>3. \A v \in hungry' : IsHungry(s, v)'
    BY <1>1, <1>2 DEF Fair, IsHungry, Large
  <1>4. \A v \in hungry' : WillHaveUsed(v)' = WillHaveUsed(v)
    BY <1>1, <1>2 DEF WillHaveUsed
  <1>5. \A v, u \in hungry' : Equal(s, w, v, u) => AreFair(v, u)'
    BY <1>1, <1>2, <1>4 DEF Fair, AreFair
  <1>6. QED BY <1>3, <1>5 DEF Fair, Equal, Large

LEMMA FairUpdate ==
    ASSUME NEW CONSTANT s, NEW CONSTANT w, NEW CONSTANT m, Host(s, w), Water(s, w, m), Fair(s, w),
           WFM(s, w, m)!UpdateInfo
    PROVE  Fair(s, w)'
  <1>0. PICK i : i = WFM(s, w, m)!First(wTodo)
    OBVIOUS
  <1>1. /\ stage = "update" /\ wTodo # {} /\ wTodo' = wTodo \ {i}
        /\ total_used' = [total_used EXCEPT ![i] = @ + wBalloon'[i] - wFree'[i]]
        /\ hungry' = hungry \ {x \in {i} : \/ wFree'[i] # 0 \/ wBalloon'[i] # wAsked[i]
                                           \/ \E y \in Swaps : swap'[i] < y}
        /\ \E b \in {wBalloon[i], wAsked[i], s[i]} : wBalloon' = [wBalloon EXCEPT ![i] = b]
        /\ \E f \in WfmFrees : wFree' = [wFree EXCEPT ![i] = f]
        /\ \E x \in Swaps : swap' = [swap EXCEPT ![i] = x]
        /\ UNCHANGED <<stage, wListed, wAsked>>
    BY <1>0 DEF WFM!UpdateInfo
  <1>2. WType(s)
    BY DEF Water
  <1>3. i \in wTodo /\ i \in wListed /\ i \in VMs(s)
    <2>1. wTodo \in SUBSET Nat /\ wTodo \in SUBSET wListed /\ wListed \in SUBSET VMs(s)
      BY <1>2, HostIndex DEF WType, Index
    <2>2. First(wTodo) \in wTodo
      BY <1>1, <2>1, FirstOfNumbers
    <2>3. i = First(wTodo)
      BY <1>0 DEF WFM!First, First
    <2>4. QED BY <2>1, <2>2, <2>3
  <1>4. WType(s)'
    BY WFMUpdate DEF Water
  <1>5. \A v \in hungry' : v \in hungry /\ v \in VMs(s)
    BY <1>1, <1>2 DEF WType
  <1>6. \A v \in VMs(s) : v # i => /\ wFree'[v] = wFree[v] /\ wBalloon'[v] = wBalloon[v]
                                   /\ swap'[v] = swap[v] /\ total_used'[v] = total_used[v]
                                   /\ Uncounted(v)' = Uncounted(v)
    BY <1>1, <1>2, <1>3 DEF WType, Uncounted
  <1>7. ~Uncounted(i)' /\ Uncounted(i)
    <2>1. stage' = "update" /\ i \in wTodo /\ i \notin wTodo'
      BY <1>1, <1>3
    <2>2. QED BY <2>1 DEF Uncounted
  <1>8. i \in hungry' => /\ wFree'[i] = 0 /\ wBalloon'[i] = wAsked[i]
                         /\ \A y \in Swaps : swap'[i] >= y
    <2> SUFFICES ASSUME i \in hungry'
                 PROVE /\ wFree'[i] = 0 /\ wBalloon'[i] = wAsked[i]
                       /\ \A y \in Swaps : swap'[i] >= y
      OBVIOUS
    <2>1. wFree'[i] = 0 /\ wBalloon'[i] = wAsked[i] /\ \A y \in Swaps : ~(swap'[i] < y)
      BY <1>1
    <2>2. swap'[i] \in Nat
      BY <1>3, <1>4 DEF WType
    <2>3. QED BY <2>1, <2>2, BudgetNumbers
  <1>9. \A v \in hungry' : IsHungry(s, v)'
    <2> TAKE v \in hungry'
    <2>1. IsHungry(s, v)
      BY <1>5 DEF Fair
    <2>2. CASE v = i
      BY <1>1, <1>8, <2>1, <2>2 DEF IsHungry, Large
    <2>3. CASE v # i
      BY <1>1, <1>5, <1>6, <2>1, <2>3 DEF IsHungry, Large
    <2>4. QED BY <2>2, <2>3
  <1>10. \A v \in hungry' : WillHaveUsed(v)' = WillHaveUsed(v)
    <2> TAKE v \in hungry'
    <2>1. CASE v = i
      <3>1. total_used'[i] = total_used[i] + wBalloon'[i] - wFree'[i]
        BY <1>1, <1>2, <1>3 DEF WType
      <3>2. total_used[i] \in Int /\ wAsked[i] \in Int
        BY <1>2, <1>3 DEF WType
      <3>3. total_used'[i] = total_used[i] + wAsked[i]
        BY <1>8, <2>1, <3>1, <3>2
      <3>4. total_used'[i] + 0 = total_used'[i]
        BY <3>2, <3>3
      <3>5. WillHaveUsed(i) = total_used[i] + wAsked[i]
        BY <1>7 DEF WillHaveUsed
      <3>6. WillHaveUsed(i)' = total_used'[i] + 0
        BY <1>7 DEF WillHaveUsed
      <3>7. QED BY <2>1, <3>3, <3>4, <3>5, <3>6
    <2>2. CASE v # i
      BY <1>1, <1>5, <1>6, <2>2 DEF WillHaveUsed
    <2>3. QED BY <2>1, <2>2
  <1>11. \A v, u \in hungry' : Equal(s, w, v, u) => AreFair(v, u)'
    BY <1>1, <1>5, <1>10 DEF Fair, AreFair
  <1>12. QED BY <1>9, <1>11 DEF Fair, Equal, Large

LEMMA FairRank ==
    ASSUME NEW CONSTANT s, NEW CONSTANT w, NEW CONSTANT m, Host(s, w), Water(s, w, m), Fair(s, w),
           WFM(s, w, m)!Rank
    PROVE  Fair(s, w)'
  <1>1. /\ stage = "update" /\ wTodo = {} /\ stage' = "serve" /\ unserved' = wListed
        /\ UNCHANGED <<wListed, wTodo, wBalloon, wFree, wAsked, swap, total_used, alloc, hungry>>
    BY DEF WFM!Rank
  <1>2. \A v \in wListed : alloc[v] = MinLoc
    BY <1>1 DEF Water
  <1>3. \A v \in hungry : v \in wListed
    BY <1>1 DEF Fair, IsHungry
  <1>4. \A v \in hungry : IsHungry(s, v)'
    BY <1>1 DEF Fair, IsHungry, Uncounted, Large
  <1>5. \A v, u \in hungry : Equal(s, w, v, u) => AreFair(v, u)'
    <2> SUFFICES ASSUME NEW v \in hungry, NEW u \in hungry, Equal(s, w, v, u)
                 PROVE  AreFair(v, u)'
      OBVIOUS
    <2>1. WillHaveUsed(v)' = WillHaveUsed(v) /\ WillHaveUsed(u)' = WillHaveUsed(u)
      BY <1>1 DEF WillHaveUsed, Uncounted
    <2>2. u \in unserved' /\ alloc'[v] = MinLoc /\ alloc'[u] = MinLoc
      BY <1>1, <1>2, <1>3
    <2>3. QED BY <2>1, <2>2, BudgetNumbers DEF Fair, AreFair, Beyond
  <1>6. QED BY <1>1, <1>4, <1>5 DEF Fair, Equal, Large

\* Of two equal hungry VMs, the one that is served first takes all that is left.
LEMMA FirstTakesAll ==
    ASSUME NEW CONSTANT s, NEW CONSTANT w, NEW CONSTANT m, Host(s, w), Water(s, w, m), Fair(s, w), Wanted,
           NEW v \in hungry, NEW u \in hungry, u # v, Equal(s, w, v, u),
           stage = "serve", left > 0, v \in wListed, u \in wListed,
           alloc[v] = MinLoc, alloc[u] = MinLoc, NEW more \in Nat, Served(s, w, m, u, more)
    PROVE  more = left
  <1>1. WType(s) /\ wTodo = {}
    BY DEF Water
  <1>2. u \in VMs(s) /\ left \in Int /\ wAsked[u] \in Int /\ swap[u] \in Nat
    BY <1>1 DEF WType
  <1>3. left <= Beyond
    BY <1>2, PairIsGone, BudgetNumbers
  <1>4. wAsked[u] >= MinLoc /\ wFree[u] = 0 /\ wBalloon[u] = wAsked[u]
        /\ \A x \in Swaps : swap[u] >= x
    <2>1. Large(s, u)
      BY DEF Equal, Large
    <2>2. ~Uncounted(u)
      BY <1>1 DEF Uncounted
    <2>3. QED BY <2>1, <2>2 DEF Fair, IsHungry
  <1>5. PICK x \in Swaps : x + Overhead >= Beyond
    BY DEF Wanted
  <1> DEFINE d == WFM(s, w, m)!Demand(u)
  <1>6. d = wAsked[u] - 0 + Overhead + swap[u]
    BY <1>4 DEF WFM!Demand, WFM!Used
  <1>7. swap[u] >= x /\ x \in Nat
    BY <1>4, <1>5, BudgetNumbers
  <1>8. WFM(s, w, m)!Wish(u) = IF d > MinLoc THEN d ELSE MinLoc
    BY DEF WFM!Wish
  <1>9. more <= left /\ (MinLoc + more = WFM(s, w, m)!Wish(u) \/ more = left)
    BY DEF Served
  <1> HIDE DEF d
  <1>10. d - MinLoc >= Beyond /\ d \in Int
    BY <1>2, <1>4, <1>5, <1>6, <1>7, BudgetNumbers
  <1>11. QED BY <1>2, <1>3, <1>8, <1>9, <1>10, BudgetNumbers

LEMMA FairServe ==
    ASSUME NEW CONSTANT s, NEW CONSTANT w, NEW CONSTANT m, Host(s, w), Water(s, w, m), Fair(s, w), Wanted,
           WFM(s, w, m)!Serve
    PROVE  Fair(s, w)'
  <1>1. WType(s)
    BY DEF Water
  <1>2. PICK i \in VMs(s) : \E more \in Nat : Served(s, w, m, i, more)
    BY <1>1, WFMServed
  <1>3. PICK more \in Nat : Served(s, w, m, i, more)
    BY <1>2
  <1>4. /\ i \in unserved /\ stage = "serve" /\ left > 0 /\ stage' = "serve"
        /\ unserved' = unserved \ {i} /\ left' = left - more
        /\ alloc' = [alloc EXCEPT ![i] = @ + more]
        /\ \A x \in unserved : WFM(s, w, m)!WeiAllo(i) <= WFM(s, w, m)!WeiAllo(x)
        /\ UNCHANGED <<wListed, wTodo, wBalloon, wFree, wAsked, swap, total_used, hungry>>
    BY <1>3 DEF Served
  <1>5. Filling(s, w, m) /\ left \in Int /\ wTodo = {} /\ wTodo' = {}
    BY <1>1, <1>4 DEF Water, WType
  <1>6. \A v \in VMs(s) : Uncounted(v)' = Uncounted(v) /\ WillHaveUsed(v)' = WillHaveUsed(v)
    BY <1>4, <1>5 DEF Uncounted, WillHaveUsed
  <1>7. \A v \in hungry : v \in VMs(s) /\ v \in wListed
    BY <1>1, <1>4 DEF Fair, IsHungry, WType
  <1>8. \A v \in hungry : IsHungry(s, v)'
    BY <1>4, <1>6, <1>7 DEF Fair, IsHungry, Large
  <1>9. ASSUME NEW v \in hungry, NEW u \in hungry, Equal(s, w, v, u)
        PROVE  AreFair(v, u)'
    <2>1. AreFair(v, u) /\ WillHaveUsed(v)' - WillHaveUsed(u)' <= Beyond
      BY <1>6, <1>7, <1>9 DEF Fair, AreFair
    <2>2. CASE u = v
      BY <1>4, <2>1, <2>2 DEF AreFair
    <2>3. CASE u # v
      <3>1. u \in unserved /\ v \in unserved
        <4>1. u \in unserved
          BY <1>4, <1>5, <2>1, <2>3 DEF AreFair
        <4>2. AreFair(u, v)
          BY <1>9 DEF Fair, Equal, Large
        <4>3. v \in unserved
          BY <1>4, <1>5, <2>3, <4>2 DEF AreFair
        <4>4. QED BY <4>1, <4>3
      <3>2. alloc[v] = MinLoc /\ alloc[u] = MinLoc
        BY <1>5, <3>1 DEF Filling
      <3>3. u \notin unserved' => left' <= 0
        <4> SUFFICES ASSUME u \notin unserved' PROVE left' <= 0
          OBVIOUS
        <4>1. u = i
          BY <1>4, <3>1
        <4>2. more = left
          BY <1>3, <1>4, <1>7, <1>9, <2>3, <3>2, <4>1, FirstTakesAll
        <4>3. QED BY <1>4, <1>5, <4>2
      <3>4. total_used'[v] > total_used'[u] => alloc'[v] <= alloc'[u]
        <4> SUFFICES ASSUME total_used[v] > total_used[u] PROVE alloc'[v] <= alloc'[u]
          BY <1>4
        <4>1. i # v
          <5>1. w[v] = w[u] /\ w[v] \in Nat /\ w[v] > 0
            BY <1>7, <1>9 DEF Equal, Host
          <5>2. total_used[v] \in Int /\ total_used[u] \in Int
            BY <1>1, <1>7 DEF WType
          <5>3. \A a, b \in Int, c \in Nat : a > b /\ c > 0 => a * c > b * c
            OBVIOUS
          <5>4. total_used[v] * w[v] > total_used[u] * w[v]
            BY <5>1, <5>2, <5>3
          <5>5. WFM(s, w, m)!WeiAllo(v) = total_used[v] * w[v]
                /\ WFM(s, w, m)!WeiAllo(u) = total_used[u] * w[v]
            BY <5>1 DEF WFM!WeiAllo
          <5>6. total_used[v] * w[v] \in Int /\ total_used[u] * w[v] \in Int
            BY <5>1, <5>2
          <5>7. i = v => WFM(s, w, m)!WeiAllo(v) <= WFM(s, w, m)!WeiAllo(u)
            BY <1>4, <3>1
          <5>8. QED BY <5>4, <5>5, <5>6, <5>7
        <4>2. alloc'[v] = MinLoc
          BY <1>1, <1>4, <1>7, <3>2, <4>1 DEF WType
        <4>3. alloc'[u] = MinLoc \/ alloc'[u] = MinLoc + more
          BY <1>1, <1>4, <1>7, <3>2 DEF WType
        <4>4. QED BY <4>2, <4>3, BudgetNumbers
      <3>5. QED BY <2>1, <3>3, <3>4 DEF AreFair
    <2>4. QED BY <2>2, <2>3
  <1>10. hungry' = hungry
    BY <1>4
  <1>11. QED BY <1>8, <1>9, <1>10 DEF Fair, Equal, Large

LEMMA FairSet ==
    ASSUME NEW CONSTANT s, NEW CONSTANT w, NEW CONSTANT m, Host(s, w), Water(s, w, m), Fair(s, w), Wanted,
           WFM(s, w, m)!SetBalloons
    PROVE  Fair(s, w)'
  <1>1. /\ stage = "serve" /\ stage' = "wait"
        /\ wAsked' = [v \in VMs(s) |-> IF v \in wListed /\ MinLoc <= alloc[v] /\ alloc[v] <= s[v]
                                       THEN alloc[v] ELSE wAsked[v]]
        /\ UNCHANGED <<wListed, wTodo, total_used, hungry>>
    BY DEF WFM!SetBalloons, WFM!VM, VMs
  <1>2. WType(s) /\ Filling(s, w, m) /\ wTodo = {} /\ left \in Int
    BY <1>1 DEF Water, WType
  <1>3. \A v \in hungry : /\ v \in VMs(s) /\ v \in wListed /\ Uncounted(v)' /\ ~Uncounted(v)
                          /\ alloc[v] \in Int /\ MinLoc <= alloc[v] /\ total_used[v] \in Int
    BY <1>1, <1>2 DEF Fair, IsHungry, WType, Uncounted, Filling
  <1>4. \A v \in hungry : IsHungry(s, v)'
    <2> TAKE v \in hungry
    <2>1. IsHungry(s, v) /\ v \in VMs(s)
      BY <1>3 DEF Fair
    <2>2. wAsked'[v] >= MinLoc \/ wAsked'[v] = wAsked[v]
      BY <1>1, <1>3, <2>1, BudgetNumbers
    <2>3. QED BY <1>1, <1>3, <2>1, <2>2 DEF IsHungry, Large
  <1>5. ASSUME NEW v \in hungry, NEW u \in hungry, Equal(s, w, v, u)
        PROVE  AreFair(v, u)'
    <2>1. AreFair(v, u) /\ Large(s, v) /\ s[v] = s[u] /\ s[v] \in Nat /\ WfmMem <= s[v]
      BY <1>3, <1>5, HostSizes DEF Fair, Equal, Large
    <2>2. CASE u = v
      <3>1. wAsked'[v] \in Int
        BY <1>1, <1>2, <1>3 DEF WType
      <3>2. WillHaveUsed(v)' \in Int
        BY <1>1, <1>3, <3>1 DEF WillHaveUsed
      <3>3. WillHaveUsed(v)' - WillHaveUsed(u)' <= Beyond
        BY <2>2, <3>2, BudgetNumbers DEF Wanted
      <3>4. QED BY <1>1, <3>3 DEF AreFair
    <2>3. CASE u # v
      <3>1. left + alloc[v] + alloc[u] <= WfmMem
        BY <1>1, <1>3, <2>3, PairIsGone
      <3>2. left < 0 => alloc[v] = MinLoc /\ alloc[u] = MinLoc
        BY <1>2, <1>3 DEF Filling
      <3> DEFINE a == alloc[v]
                 b == alloc[u]
      <3>3. /\ a \in Int /\ b \in Int /\ MinLoc <= a /\ MinLoc <= b
            /\ left + a + b <= WfmMem /\ (left < 0 => a = MinLoc /\ b = MinLoc)
        BY <1>3, <3>1, <3>2
      <3> HIDE DEF a, b
      <3>4. a <= s[v] /\ b <= s[v] /\ a - b <= Beyond
        BY <1>2, <2>1, <3>3, BudgetNumbers DEF Wanted
      <3>5. wAsked'[v] = a /\ wAsked'[u] = b
        BY <1>1, <1>3, <2>1, <3>3, <3>4 DEF a, b
      <3>6. WillHaveUsed(v)' = total_used[v] + a /\ WillHaveUsed(u)' = total_used[u] + b
        BY <1>1, <1>3, <3>5 DEF WillHaveUsed
      <3>7. total_used[v] - total_used[u] <= Beyond
        <4>1. WillHaveUsed(v) = total_used[v] + 0 /\ WillHaveUsed(u) = total_used[u] + 0
          BY <1>3 DEF WillHaveUsed
        <4>2. WillHaveUsed(v) - WillHaveUsed(u) <= Beyond
          BY <2>1 DEF AreFair
        <4>3. QED BY <1>3, <4>1, <4>2
      <3>8. total_used[v] > total_used[u] => a <= b
        BY <1>1, <2>1, <2>3 DEF AreFair, a, b
      <3>9. WillHaveUsed(v)' - WillHaveUsed(u)' <= Beyond
        BY <1>3, <3>3, <3>4, <3>6, <3>7, <3>8, BudgetNumbers
      <3>10. QED BY <1>1, <3>9 DEF AreFair
    <2>4. QED BY <2>2, <2>3
  <1>6. hungry' = hungry
    BY <1>1
  <1>7. QED BY <1>4, <1>5, <1>6 DEF Fair, Equal, Large

LEMMA FairStutter ==
    ASSUME NEW CONSTANT s, NEW CONSTANT w, Fair(s, w), UNCHANGED wfmVars
    PROVE  Fair(s, w)'
  BY DEF wfmVars, Fair, IsHungry, AreFair, WillHaveUsed, Uncounted, Equal, Large

LEMMA WFMInitFair == PartsInit => FairInv
  BY HostsAssumption, FairInit DEF PartsInit, FairInv

LEMMA WFMStepFair == WaterInv /\ FairInv /\ [PartsNext]_partsVars => FairInv'
  <1> SUFFICES ASSUME WaterInv, FairInv, [PartsNext]_partsVars, part' = "wfm", Wanted
               PROVE  Fair(WfmSizes, WfmWeights)'
    BY DEF FairInv, Wanted, Beyond
  <1>1. part = "wfm"
    BY DEF PartsNext, GradientMoves, RPMoves, WFMMoves, FitMoves, VdsmMoves, CountersMove, partsVars
  <1>2. Host(WfmSizes, WfmWeights) /\ Water(WfmSizes, WfmWeights, WfmRounds) /\ Fair(WfmSizes, WfmWeights)
    BY <1>1, HostsAssumption DEF WaterInv, FairInv
  <1>3. CASE WFMMoves
    <2>1. WFM(WfmSizes, WfmWeights, WfmRounds)!Next
      BY <1>1, <1>3 DEF WFMMoves
    <2>2. QED BY <1>2, <2>1, FairBegin, FairUpdate, FairRank, FairServe, FairSet DEF WFM!Next
  <1>4. CASE UNCHANGED partsVars
    <2>1. UNCHANGED wfmVars
      BY <1>4 DEF partsVars
    <2>2. QED BY <1>2, <2>1, FairStutter
  <1>5. QED BY <1>1, <1>3, <1>4
           DEF PartsNext, GradientMoves, RPMoves, FitMoves, VdsmMoves, CountersMove

\* On any host, two VMs of the same weight that always use and want all they can
\* get never part by more than what one round has beyond their minimum.
THEOREM EqualsStayTogether == PartsSpec => []LongTermFair
  <1>1. WaterInv /\ FairInv => LongTermFair
    <2> SUFFICES ASSUME WaterInv, FairInv, part = "wfm"
                 PROVE  WFM(WfmSizes, WfmWeights, WfmRounds)!LongTermFair
      BY DEF LongTermFair
    <2> SUFFICES ASSUME WFM(WfmSizes, WfmWeights, WfmRounds)!WantAll, 2 * MinLoc <= WfmMem,
                        NEW v \in hungry, NEW u \in hungry, WfmWeights[v] = WfmWeights[u],
                        stage = "serve", WfmSizes[v] = WfmSizes[u], WfmMem <= WfmSizes[v]
                 PROVE  total_used[v] - total_used[u] <= WfmMem - 2 * MinLoc
      BY DEF WFM!LongTermFair
    <2>1. Wanted
      BY BudgetNumbers DEF WFM!WantAll, Wanted, Beyond
    <2>2. WType(WfmSizes) /\ wTodo = {}
      BY DEF WaterInv, Water
    <2>3. total_used[v] \in Int /\ total_used[u] \in Int
      BY <2>2 DEF WType
    <2>4. AreFair(v, u)
      BY <2>1 DEF FairInv, Fair, Equal, Large
    <2>5. WillHaveUsed(v) = total_used[v] + 0 /\ WillHaveUsed(u) = total_used[u] + 0
      BY <2>2 DEF WillHaveUsed, Uncounted
    <2>6. QED BY <2>3, <2>4, <2>5, BudgetNumbers DEF AreFair
  <1>2. PartsSpec => [](WaterInv /\ FairInv)
    BY WaterInit, WaterStep, WFMInitFair, WFMStepFair, PTL DEF PartsSpec
  <1>3. QED BY <1>1, <1>2, PTL
-----------------------------------------------------------------------------
(* VdsmInterfaces. *)

BalloonNames == {"max", "min", "cur", "target", "absent"}
GuestRecord == [memory : {"ok", "off", "empty", "absent"}, balloon : SUBSET BalloonNames,
                cpu : {"ok", "absent"}, io : {"ok", "empty", "absent"}, value : Values]
Heard == {Vdsm!NoGuest} \cup GuestRecord
Statements == {Vdsm!Failed} \cup Heard

\* vm is what is kept of the statement s.
KeptOf(vm, s) ==
    IF s \in GuestRecord
    THEN /\ vm \in GuestRecord /\ vm.memory = s.memory /\ vm.cpu = s.cpu /\ vm.value = s.value
         /\ vm.balloon \cap Vdsm!BalloonKeys = s.balloon \cap Vdsm!BalloonKeys
    ELSE vm = Vdsm!NoGuest

PolicyOf(vms, s) == IF s = Vdsm!Failed THEN vms = Vdsm!Missing ELSE vms = Vdsm!Optional(s)

\* What is in a cache and has not expired was said when it was asked for.
StatsKept == stats.age <= Expiration => \E s \in seen[stats.age] : KeptOf(stats.vm, s)
TuneKept == tune.age <= Expiration => \E s \in seen[tune.age] : PolicyOf(tune.vms, s)

VdsmInv ==
    /\ guest \in Heard /\ seen \in [0 .. Expiration -> SUBSET Statements] /\ guest \in seen[0]
    /\ stats \in [age : Nat, vm : Heard]
    /\ tune \in [age : Nat, vms : {Vdsm!Missing} \cup {Vdsm!Optional(s) : s \in Heard}]
    /\ StatsKept /\ TuneKept
    /\ Vdsm!SampleIsVdsms

LEMMA VdsmNumbers == Expiration \in Nat /\ "old" \in Values /\ "nothing" \notin Values
                     /\ "None" \notin Values /\ "KeyError" \notin Values
                     /\ "HypervisorInterfaceError" \notin Values
  BY PoliciesAssumption

\* A reply is one of these: no guest, a failure, or a guest.
LEMMA RepliesDiffer ==
    /\ Vdsm!NoGuest # Vdsm!Failed
    /\ \A r \in GuestRecord : r # Vdsm!NoGuest /\ r # Vdsm!Failed
  <1>1. DOMAIN Vdsm!NoGuest = {"none"} /\ DOMAIN Vdsm!Failed = {"failed"}
    BY DEF Vdsm!NoGuest, Vdsm!Failed
  <1>2. \A r \in GuestRecord : "memory" \in DOMAIN r
    BY DEF GuestRecord
  <1>3. QED BY <1>1, <1>2

LEMMA GuestsAreRecords == Vdsm!Guests \subseteq Heard
  <1> SUFFICES ASSUME NEW v \in Values, NEW g \in Vdsm!GuestsWith(v) PROVE g \in GuestRecord
    BY DEF Vdsm!Guests, Heard
  <1> DEFINE V == [Vdsm!Full EXCEPT !.value = v]
  <1>1. V = [memory |-> "ok", balloon |-> {"max", "min", "cur", "target"},
             cpu |-> "ok", io |-> "ok", value |-> v]
    BY DEF Vdsm!Full
  <1>2. V \in GuestRecord
    BY <1>1 DEF GuestRecord, BalloonNames
  <1>3. \/ g = V \/ g = [V EXCEPT !.cpu = "absent"]
        \/ \E m \in {"off", "empty", "absent"} : g = [V EXCEPT !.memory = m]
        \/ \E b \in {{}, {"absent"}} : g = [V EXCEPT !.balloon = b]
        \/ \E i \in {"empty", "absent"} : g = [V EXCEPT !.io = i]
    BY DEF Vdsm!GuestsWith
  <1> HIDE DEF V
  <1>4. [V EXCEPT !.cpu = "absent"] \in GuestRecord
    BY <1>2 DEF GuestRecord
  <1>5. \A m \in {"off", "empty", "absent"} : [V EXCEPT !.memory = m] \in GuestRecord
    BY <1>2 DEF GuestRecord
  <1>6. \A b \in {{}, {"absent"}} : [V EXCEPT !.balloon = b] \in GuestRecord
    BY <1>2 DEF GuestRecord, BalloonNames
  <1>7. \A i \in {"empty", "absent"} : [V EXCEPT !.io = i] \in GuestRecord
    BY <1>2 DEF GuestRecord
  <1>8. QED BY <1>2, <1>3, <1>4, <1>5, <1>6, <1>7

ResultOf(r) == IF r \in Values THEN r ELSE "nothing"

\* What a collector makes of what is kept is what was said.
LEMMA CacheSays ==
    ASSUME NEW s \in Statements, NEW vm \in Heard, KeptOf(vm, s), NEW g \in {"memory", "balloon", "cpu"}
    PROVE  ResultOf(Vdsm!OfCached(g, vm)) = Vdsm!Says(s, g)
  <1>1. CASE s \in GuestRecord
    <2>1. vm \in GuestRecord /\ vm # Vdsm!NoGuest /\ s \notin {Vdsm!NoGuest, Vdsm!Failed}
          /\ vm.memory = s.memory /\ vm.cpu = s.cpu /\ vm.value = s.value /\ s.value \in Values
          /\ s.memory \in {"ok", "off", "empty", "absent"} /\ s.cpu \in {"ok", "absent"}
      BY <1>1, RepliesDiffer DEF KeptOf, GuestRecord
    <2>2. CASE g = "memory"
      BY <2>1, <2>2, VdsmNumbers DEF Vdsm!OfCached, Vdsm!MemoryStats, Vdsm!Says, ResultOf
    <2>3. CASE g = "balloon"
      <3>1. Vdsm!Stripped(vm).balloon = vm.balloon \cap Vdsm!BalloonKeys
        BY <2>1 DEF Vdsm!Stripped, GuestRecord
      <3>2. Vdsm!Stripped(vm).balloon = Vdsm!BalloonKeys <=> Vdsm!BalloonKeys \subseteq s.balloon
        BY <1>1, <3>1 DEF KeptOf
      <3>3. QED BY <2>1, <2>3, <3>2, VdsmNumbers DEF Vdsm!OfCached, Vdsm!BalloonInfo, Vdsm!Says, ResultOf
    <2>4. CASE g = "cpu"
      BY <2>1, <2>4, VdsmNumbers DEF Vdsm!OfCached, Vdsm!CpuTuneInfo, Vdsm!Says, ResultOf
    <2>5. QED BY <2>2, <2>3, <2>4
  <1>2. CASE s \notin GuestRecord
    <2>1. vm = Vdsm!NoGuest /\ s \in {Vdsm!NoGuest, Vdsm!Failed}
      BY <1>2 DEF KeptOf, Statements, Heard
    <2>2. QED BY <2>1, VdsmNumbers DEF Vdsm!OfCached, Vdsm!Says, ResultOf
  <1>3. QED BY <1>1, <1>2

LEMMA ApiSays ==
    ASSUME NEW s \in Statements, NEW g \in {"memory", "balloon", "cpu"}
    PROVE  ResultOf(Vdsm!OfApi(g, s)) = Vdsm!Says(s, g)
  <1>1. CASE s \in GuestRecord
    <2>1. ~Vdsm!Refused(s) /\ s \notin {Vdsm!NoGuest, Vdsm!Failed} /\ s.value \in Values
          /\ s.memory \in {"ok", "off", "empty", "absent"} /\ s.cpu \in {"ok", "absent"}
      BY <1>1, RepliesDiffer DEF Vdsm!Refused, GuestRecord
    <2>2. CASE g = "memory"
      BY <2>1, <2>2, VdsmNumbers
         DEF Vdsm!OfApi, Vdsm!ApiMemoryStats, Vdsm!MemoryStats, Vdsm!Says, ResultOf
    <2>3. CASE g = "balloon"
      <3>1. Vdsm!Stripped(s).balloon = s.balloon \cap Vdsm!BalloonKeys
        BY <1>1 DEF Vdsm!Stripped, GuestRecord
      <3>2. Vdsm!Stripped(s).balloon = Vdsm!BalloonKeys <=> Vdsm!BalloonKeys \subseteq s.balloon
        BY <3>1
      <3>3. s.balloon = {"absent"} => ~(Vdsm!BalloonKeys \subseteq s.balloon)
        BY DEF Vdsm!BalloonKeys
      <3>4. CASE s.balloon = {"absent"}
        BY <2>1, <2>3, <3>3, <3>4, VdsmNumbers
           DEF Vdsm!OfApi, Vdsm!ApiBalloonInfo, Vdsm!Says, ResultOf
      <3>5. CASE s.balloon # {"absent"}
        BY <2>1, <2>3, <3>2, <3>5, VdsmNumbers
           DEF Vdsm!OfApi, Vdsm!ApiBalloonInfo, Vdsm!BalloonInfo, Vdsm!Says, ResultOf
      <3>6. QED BY <3>4, <3>5
    <2>4. CASE g = "cpu"
      BY <2>1, <2>4, VdsmNumbers
         DEF Vdsm!OfApi, Vdsm!ApiCpuTuneInfo, Vdsm!CpuTuneInfo, Vdsm!Says, ResultOf
    <2>5. QED BY <2>2, <2>3, <2>4
  <1>2. CASE s \notin GuestRecord
    <2>1. s \in {Vdsm!NoGuest, Vdsm!Failed}
      BY <1>2 DEF Statements, Heard
    <2>2. QED BY <2>1, VdsmNumbers
             DEF Vdsm!OfApi, Vdsm!ApiMemoryStats, Vdsm!ApiBalloonInfo, Vdsm!ApiCpuTuneInfo,
                 Vdsm!Refused, Vdsm!Says, ResultOf
  <1>3. QED BY <1>1, <1>2

LEMMA ListSays == \A s \in Heard : ResultOf(Vdsm!Listed(s)) = Vdsm!Says(s, "io")
  <1> SUFFICES ASSUME NEW s \in Heard PROVE ResultOf(Vdsm!Listed(s)) = Vdsm!Says(s, "io")
    OBVIOUS
  <1>1. CASE s \in GuestRecord
    <2>1. s \notin {Vdsm!NoGuest, Vdsm!Failed} /\ s.value \in Values
      BY <1>1, RepliesDiffer DEF GuestRecord
    <2>2. QED BY <2>1, VdsmNumbers DEF Vdsm!Listed, Vdsm!Says, ResultOf
  <1>2. CASE s = Vdsm!NoGuest
    BY <1>2, VdsmNumbers DEF Vdsm!Listed, Vdsm!Says, ResultOf
  <1>3. QED BY <1>1, <1>2 DEF Heard

LEMMA PolicySays ==
    ASSUME NEW s \in Statements, NEW vms, PolicyOf(vms, s)
    PROVE  ResultOf(Vdsm!OfPolicies(vms)) = Vdsm!Says(s, "io")
  <1>1. CASE s = Vdsm!Failed
    BY <1>1, VdsmNumbers
       DEF PolicyOf, Vdsm!OfPolicies, Vdsm!Item, Vdsm!Missing, Vdsm!OrNone, Vdsm!Says, ResultOf
  <1>2. CASE s # Vdsm!Failed
    <2>1. s \in Heard /\ vms = [present |-> TRUE, value |-> s]
      BY <1>2 DEF PolicyOf, Vdsm!Optional, Statements
    <2>2. CASE Vdsm!InPolicies(s)
      <3>1. Vdsm!OfPolicies(vms) = Vdsm!Listed(s)
        BY <2>1, <2>2 DEF Vdsm!OfPolicies, Vdsm!Item, Vdsm!Optional, Vdsm!OrNone
      <3>2. QED BY <2>1, <3>1, ListSays
    <2>3. CASE ~Vdsm!InPolicies(s)
      <3>1. Vdsm!OfPolicies(vms) = "None" /\ Vdsm!Listed(s) = "None"
        BY <2>1, <2>3 DEF Vdsm!OfPolicies, Vdsm!Item, Vdsm!Missing, Vdsm!OrNone,
                          Vdsm!InPolicies, Vdsm!Listed
      <3>2. QED BY <2>1, <3>1, ListSays
    <2>4. QED BY <2>2, <2>3
  <1>3. QED BY <1>1, <1>2

LEMMA VdsmInit == PartsInit => VdsmInv
  <1> SUFFICES ASSUME Vdsm!Init PROVE VdsmInv
    BY DEF PartsInit
  <1>1. guest \in Heard
    <2>1. guest \in Vdsm!Guests
      BY VdsmNumbers DEF Vdsm!Init, Vdsm!Guests
    <2>2. QED BY <2>1, GuestsAreRecords
  <1>2. seen = [s \in 0 .. Expiration |-> {guest}] /\ 0 \in 0 .. Expiration
    BY VdsmNumbers DEF Vdsm!Init
  <1>3. seen \in [0 .. Expiration -> SUBSET Statements] /\ guest \in seen[0]
    BY <1>1, <1>2 DEF Statements
  <1>4. stats = [age |-> Expiration + 1, vm |-> Vdsm!NoGuest]
        /\ tune = [age |-> Expiration + 1, vms |-> Vdsm!Missing]
    BY DEF Vdsm!Init, Vdsm!Nothing, Vdsm!NoPolicies, Vdsm!Stale
  <1>5. stats \in [age : Nat, vm : Heard]
        /\ tune \in [age : Nat, vms : {Vdsm!Missing} \cup {Vdsm!Optional(s) : s \in Heard}]
    BY <1>4, VdsmNumbers DEF Heard
  <1>6. StatsKept /\ TuneKept
    BY <1>4, VdsmNumbers DEF StatsKept, TuneKept
  <1>7. last.group = "none"
    BY DEF Vdsm!Init, Vdsm!NoReport
  <1>8. Vdsm!SampleIsVdsms
    BY <1>7 DEF Vdsm!SampleIsVdsms
  <1>9. QED BY <1>1, <1>3, <1>5, <1>6, <1>8 DEF VdsmInv

\* What has been said is not forgotten in this second.
LEMMA SeenGrows ==
    ASSUME VdsmInv, NEW x \in Statements,
           UNCHANGED seen \/ seen' = [seen EXCEPT ![0] = @ \cup {x}]
    PROVE  /\ seen' \in [0 .. Expiration -> SUBSET Statements]
           /\ \A k \in 0 .. Expiration : seen[k] \subseteq seen'[k]
           /\ seen' = [seen EXCEPT ![0] = @ \cup {x}] => x \in seen'[0]
  <1>1. seen \in [0 .. Expiration -> SUBSET Statements] /\ 0 \in 0 .. Expiration
    BY VdsmNumbers DEF VdsmInv
  <1>2. QED BY <1>1

LEMMA StatsStayKept ==
    ASSUME VdsmInv, \A k \in 0 .. Expiration : seen[k] \subseteq seen'[k], UNCHANGED stats
    PROVE  StatsKept'
  <1>1. stats.age \in Nat /\ StatsKept
    BY DEF VdsmInv
  <1>2. QED BY <1>1, VdsmNumbers DEF StatsKept

LEMMA TuneStaysKept ==
    ASSUME VdsmInv, \A k \in 0 .. Expiration : seen[k] \subseteq seen'[k], UNCHANGED tune
    PROVE  TuneKept'
  <1>1. tune.age \in Nat /\ TuneKept
    BY DEF VdsmInv
  <1>2. QED BY <1>1, VdsmNumbers DEF TuneKept

LEMMA GuestSays ==
    ASSUME VdsmInv, NEW k \in 0 .. Expiration, NEW s \in seen'[k], NEW g, NEW r,
           last' = [group |-> g, result |-> ResultOf(r)], ResultOf(r) = Vdsm!Says(s, g)
    PROVE  Vdsm!SampleIsVdsms'
  BY DEF Vdsm!SampleIsVdsms

LEMMA NoneSays == ASSUME last' = Vdsm!NoReport PROVE Vdsm!SampleIsVdsms'
  BY DEF Vdsm!NoReport, Vdsm!SampleIsVdsms

LEMMA VdsmGuestChanges == ASSUME VdsmInv, Vdsm!GuestChanges PROVE VdsmInv'
  <1>1. guest' \in Vdsm!Guests /\ seen' = [seen EXCEPT ![0] = @ \cup {guest'}]
        /\ last' = Vdsm!NoReport /\ UNCHANGED stats /\ UNCHANGED tune
    BY DEF Vdsm!GuestChanges
  <1>2. guest' \in Heard /\ guest' \in Statements
    BY <1>1, GuestsAreRecords DEF Statements
  <1>3. PICK x \in Statements : x = guest'
    BY <1>2
  <1>4. /\ seen' \in [0 .. Expiration -> SUBSET Statements] /\ guest' \in seen'[0]
        /\ \A k \in 0 .. Expiration : seen[k] \subseteq seen'[k]
    BY <1>1, <1>3, SeenGrows
  <1>5. StatsKept' /\ TuneKept'
    BY <1>1, <1>4, StatsStayKept, TuneStaysKept
  <1>6. QED BY <1>1, <1>2, <1>4, <1>5, NoneSays DEF VdsmInv

LEMMA VdsmSecond == ASSUME VdsmInv, Vdsm!Second PROVE VdsmInv'
  <1>1. seen' = [s \in 0 .. Expiration |-> IF s = 0 THEN {guest} ELSE seen[s - 1]]
        /\ stats' = Vdsm!Older(stats, Vdsm!Nothing) /\ tune' = Vdsm!Older(tune, Vdsm!NoPolicies)
        /\ last' = Vdsm!NoReport /\ guest' = guest
    BY DEF Vdsm!Second
  <1>2. guest \in Heard /\ seen \in [0 .. Expiration -> SUBSET Statements] /\ Expiration \in Nat
    BY VdsmNumbers DEF VdsmInv
  <1>3. /\ seen' \in [0 .. Expiration -> SUBSET Statements] /\ guest \in seen'[0]
        /\ \A k \in Nat : k < Expiration => seen'[k + 1] = seen[k]
    BY <1>1, <1>2 DEF Statements
  <1>4. stats' \in [age : Nat, vm : Heard] /\ StatsKept'
    <2>1. stats \in [age : Nat, vm : Heard] /\ StatsKept
      BY DEF VdsmInv
    <2>2. CASE stats.age >= Expiration
      <3>1. stats' = [age |-> Expiration + 1, vm |-> Vdsm!NoGuest]
        BY <1>1, <2>2 DEF Vdsm!Older, Vdsm!Nothing, Vdsm!Stale
      <3>2. QED BY <1>2, <3>1 DEF Heard, StatsKept
    <2>3. CASE ~(stats.age >= Expiration)
      <3>1. stats' = [stats EXCEPT !.age = @ + 1]
        BY <1>1, <2>3 DEF Vdsm!Older
      <3>2. stats'.age = stats.age + 1 /\ stats'.vm = stats.vm /\ stats' \in [age : Nat, vm : Heard]
        BY <2>1, <3>1
      <3>3. seen'[stats'.age] = seen[stats.age]
        BY <1>2, <1>3, <2>1, <2>3, <3>2
      <3>4. QED BY <1>2, <2>1, <2>3, <3>2, <3>3 DEF StatsKept
    <2>4. QED BY <2>2, <2>3
  <1>5. tune' \in [age : Nat, vms : {Vdsm!Missing} \cup {Vdsm!Optional(s) : s \in Heard}]
        /\ TuneKept'
    <2> DEFINE P == {Vdsm!Missing} \cup {Vdsm!Optional(s) : s \in Heard}
    <2>1. tune \in [age : Nat, vms : P] /\ TuneKept /\ Vdsm!Missing \in P
      BY DEF VdsmInv
    <2> HIDE DEF P
    <2>2. CASE tune.age >= Expiration
      <3>1. tune' = [age |-> Expiration + 1, vms |-> Vdsm!Missing]
        BY <1>1, <2>2 DEF Vdsm!Older, Vdsm!NoPolicies, Vdsm!Stale
      <3>2. tune' \in [age : Nat, vms : P] /\ TuneKept'
        BY <1>2, <2>1, <3>1 DEF TuneKept
      <3>3. QED BY <3>2 DEF P
    <2>3. CASE ~(tune.age >= Expiration)
      <3>1. tune' = [tune EXCEPT !.age = @ + 1]
        BY <1>1, <2>3 DEF Vdsm!Older
      <3>2. tune'.age = tune.age + 1 /\ tune'.vms = tune.vms /\ tune' \in [age : Nat, vms : P]
        BY <2>1, <3>1
      <3>3. seen'[tune'.age] = seen[tune.age]
        BY <1>2, <1>3, <2>1, <2>3, <3>2
      <3>4. TuneKept'
        BY <1>2, <2>1, <2>3, <3>2, <3>3 DEF TuneKept
      <3>5. QED BY <3>2, <3>4 DEF P
    <2>4. QED BY <2>2, <2>3
  <1>6. guest' \in Heard /\ guest' \in seen'[0]
    BY <1>1, <1>2, <1>3
  <1>7. QED BY <1>1, <1>3, <1>4, <1>5, <1>6, NoneSays DEF VdsmInv

\* What getAllVmStats returns, from the cache or not.
LEMMA VdsmStats ==
    ASSUME VdsmInv, NEW c, Vdsm!GetAllVmStats(c)
    PROVE  /\ seen' \in [0 .. Expiration -> SUBSET Statements]
           /\ \A k \in 0 .. Expiration : seen[k] \subseteq seen'[k]
           /\ c \in [age : Nat, vm : Heard] /\ c.age \in 0 .. Expiration
           /\ \E s \in seen'[c.age] : KeptOf(c.vm, s)
  <1>1. stats \in [age : Nat, vm : Heard] /\ guest \in Heard /\ guest \in seen[0] /\ StatsKept
        /\ Expiration \in Nat
    BY VdsmNumbers DEF VdsmInv
  <1>2. Vdsm!Failed \in Statements /\ Vdsm!NoGuest \in Heard /\ Vdsm!Failed \notin GuestRecord
        /\ Vdsm!NoGuest \notin GuestRecord
    BY RepliesDiffer DEF Statements, Heard
  <1>3. UNCHANGED seen \/ seen' = [seen EXCEPT ![0] = @ \cup {Vdsm!Failed}]
    BY DEF Vdsm!GetAllVmStats, Vdsm!Answers, Vdsm!Fails
  <1>4. /\ seen' \in [0 .. Expiration -> SUBSET Statements]
        /\ \A k \in 0 .. Expiration : seen[k] \subseteq seen'[k]
        /\ seen' = [seen EXCEPT ![0] = @ \cup {Vdsm!Failed}] => Vdsm!Failed \in seen'[0]
    BY <1>2, <1>3, SeenGrows
  <1>5. CASE Vdsm!Fresh(stats) /\ c = stats
    <2>1. stats.age \in 0 .. Expiration
      BY <1>1, <1>5 DEF Vdsm!Fresh
    <2>2. PICK s \in seen[stats.age] : KeptOf(stats.vm, s)
      BY <1>1, <2>1 DEF StatsKept
    <2>3. QED BY <1>1, <1>4, <1>5, <2>1, <2>2
  <1>6. CASE c = [age |-> 0, vm |-> guest]
    <2>1. KeptOf(guest, guest)
      BY <1>1 DEF KeptOf, Heard
    <2>2. c.age = 0 /\ c.vm = guest /\ c \in [age : Nat, vm : Heard] /\ 0 \in 0 .. Expiration
      BY <1>1, <1>6
    <2>3. guest \in seen'[0]
      BY <1>1, <1>4, <2>2
    <2>4. QED BY <1>4, <2>1, <2>2, <2>3
  <1>7. CASE c = [age |-> 0, vm |-> Vdsm!NoGuest] /\ Vdsm!Fails
    <2>1. KeptOf(Vdsm!NoGuest, Vdsm!Failed)
      BY <1>2 DEF KeptOf
    <2>2. c.age = 0 /\ c.vm = Vdsm!NoGuest /\ c \in [age : Nat, vm : Heard] /\ 0 \in 0 .. Expiration
      BY <1>1, <1>2, <1>7
    <2>3. Vdsm!Failed \in seen'[0]
      BY <1>4, <1>7 DEF Vdsm!Fails
    <2>4. QED BY <1>4, <2>1, <2>2, <2>3
  <1>8. QED BY <1>5, <1>6, <1>7 DEF Vdsm!GetAllVmStats

\* Deleting the keys nobody asked for does no harm.
LEMMA StrippedIsKept ==
    ASSUME NEW vm \in GuestRecord, NEW s, KeptOf(vm, s), s \in GuestRecord
    PROVE  Vdsm!Stripped(vm) \in GuestRecord /\ KeptOf(Vdsm!Stripped(vm), s)
  <1> DEFINE t == Vdsm!Stripped(vm)
             K == Vdsm!BalloonKeys
  <1>1. t = [vm EXCEPT !.balloon = @ \cap K]
    BY DEF Vdsm!Stripped
  <1> HIDE DEF t, K
  <1>2. vm.balloon \cap K \in SUBSET BalloonNames
    BY DEF GuestRecord
  <1>3. t \in GuestRecord /\ t.memory = vm.memory /\ t.cpu = vm.cpu /\ t.value = vm.value
        /\ t.balloon = vm.balloon \cap K
    BY <1>1, <1>2 DEF GuestRecord
  <1>4. t.balloon \cap K = vm.balloon \cap K
    BY <1>3
  <1>5. KeptOf(t, s)
    BY <1>3, <1>4 DEF KeptOf, K
  <1>6. QED BY <1>3, <1>5 DEF t

\* A call fails: it is said that VDSM could not be asked, which says nothing.
LEMMA VdsmFails ==
    ASSUME VdsmInv, Vdsm!Fails
    PROVE  /\ seen' \in [0 .. Expiration -> SUBSET Statements]
           /\ \A k \in 0 .. Expiration : seen[k] \subseteq seen'[k]
           /\ 0 \in 0 .. Expiration /\ Vdsm!Failed \in seen'[0] /\ Vdsm!Failed \in Statements
           /\ \A g : Vdsm!Says(Vdsm!Failed, g) = "nothing"
  <1>1. Vdsm!Failed \in Statements /\ seen' = [seen EXCEPT ![0] = @ \cup {Vdsm!Failed}]
    BY DEF Statements, Vdsm!Fails
  <1>2. \A g : Vdsm!Says(Vdsm!Failed, g) = "nothing"
    BY DEF Vdsm!Says
  <1>3. 0 \in 0 .. Expiration
    BY VdsmNumbers
  <1>4. QED BY <1>1, <1>2, <1>3, SeenGrows

LEMMA VdsmAnswers ==
    ASSUME VdsmInv, Vdsm!Answers
    PROVE  /\ seen' \in [0 .. Expiration -> SUBSET Statements]
           /\ \A k \in 0 .. Expiration : seen[k] \subseteq seen'[k]
           /\ 0 \in 0 .. Expiration /\ guest \in seen'[0] /\ guest \in Heard
  BY VdsmNumbers DEF Vdsm!Answers, VdsmInv

LEMMA VdsmCollectCached ==
    ASSUME VdsmInv, NEW g \in {"memory", "balloon", "cpu"}, Vdsm!CollectCached(g)
    PROVE  VdsmInv'
  <1>1. UNCHANGED guest /\ UNCHANGED tune
    BY DEF Vdsm!CollectCached
  <1>2. ASSUME NEW c, Vdsm!GetAllVmStats(c), Vdsm!Report(g, Vdsm!OfCached(g, c.vm)),
               stats' = Vdsm!Cached(g, c)
        PROVE  VdsmInv'
    <2>1. /\ seen' \in [0 .. Expiration -> SUBSET Statements]
          /\ \A k \in 0 .. Expiration : seen[k] \subseteq seen'[k]
          /\ c \in [age : Nat, vm : Heard] /\ c.age \in 0 .. Expiration
          /\ \E s \in seen'[c.age] : KeptOf(c.vm, s)
      BY <1>2, VdsmStats
    <2>2. PICK s \in seen'[c.age] : KeptOf(c.vm, s)
      BY <2>1
    <2>3. s \in Statements /\ c.vm \in Heard
      BY <2>1
    <2>4. stats' \in [age : Nat, vm : Heard] /\ stats'.age = c.age /\ KeptOf(stats'.vm, s)
      <3>1. CASE g = "balloon" /\ c.vm # Vdsm!NoGuest
        <4>1. c.vm \in GuestRecord /\ s \in GuestRecord
          BY <2>2, <2>3, <3>1 DEF Heard, KeptOf
        <4>2. Vdsm!Stripped(c.vm) \in GuestRecord /\ KeptOf(Vdsm!Stripped(c.vm), s)
          BY <2>2, <4>1, StrippedIsKept
        <4>3. stats' = [c EXCEPT !.vm = Vdsm!Stripped(c.vm)]
          BY <1>2, <3>1 DEF Vdsm!Cached
        <4>4. QED BY <2>1, <4>2, <4>3 DEF Heard
      <3>2. CASE ~(g = "balloon" /\ c.vm # Vdsm!NoGuest)
        BY <1>2, <2>1, <2>2, <3>2 DEF Vdsm!Cached
      <3>3. QED BY <3>1, <3>2
    <2>5. StatsKept'
      BY <2>4, <2>2 DEF StatsKept
    <2>6. TuneKept'
      BY <1>1, <2>1, TuneStaysKept
    <2>7. last' = [group |-> g, result |-> ResultOf(Vdsm!OfCached(g, c.vm))]
      BY <1>2 DEF Vdsm!Report, ResultOf
    <2>8. ResultOf(Vdsm!OfCached(g, c.vm)) = Vdsm!Says(s, g)
      BY <2>2, <2>3, CacheSays
    <2>9. Vdsm!SampleIsVdsms'
      BY <2>1, <2>2, <2>7, <2>8, GuestSays
    <2>10. guest' \in Heard /\ guest' \in seen'[0] /\ tune' = tune
      BY <1>1, <2>1, VdsmNumbers DEF VdsmInv
    <2>11. QED BY <2>1, <2>4, <2>5, <2>6, <2>9, <2>10 DEF VdsmInv
  <1>3. ASSUME Vdsm!StatsRaise, Vdsm!Report(g, "KeyError"), UNCHANGED stats
        PROVE  VdsmInv'
    <2>1. /\ seen' \in [0 .. Expiration -> SUBSET Statements]
          /\ \A k \in 0 .. Expiration : seen[k] \subseteq seen'[k]
          /\ 0 \in 0 .. Expiration /\ Vdsm!Failed \in seen'[0]
          /\ Vdsm!Says(Vdsm!Failed, g) = "nothing"
      BY <1>3, VdsmFails DEF Vdsm!StatsRaise
    <2>2. last' = [group |-> g, result |-> ResultOf("KeyError")] /\ ResultOf("KeyError") = "nothing"
      BY <1>3, VdsmNumbers DEF Vdsm!Report, ResultOf
    <2>3. Vdsm!SampleIsVdsms'
      BY <2>1, <2>2, GuestSays
    <2>4. StatsKept' /\ TuneKept'
      BY <1>1, <1>3, <2>1, StatsStayKept, TuneStaysKept
    <2>5. guest' \in Heard /\ guest' \in seen'[0] /\ tune' = tune /\ stats' = stats
      BY <1>1, <1>3, <2>1 DEF VdsmInv
    <2>6. QED BY <2>1, <2>3, <2>4, <2>5 DEF VdsmInv
  <1>4. QED BY <1>2, <1>3 DEF Vdsm!CollectCached

LEMMA VdsmCollectApi ==
    ASSUME VdsmInv, NEW g \in {"memory", "balloon", "cpu"}, Vdsm!CollectApi(g)
    PROVE  VdsmInv'
  <1>1. UNCHANGED guest /\ UNCHANGED tune /\ UNCHANGED stats
    BY DEF Vdsm!CollectApi
  <1>2. PICK s \in Statements :
            /\ Vdsm!Report(g, Vdsm!OfApi(g, s)) /\ s \in seen'[0] /\ 0 \in 0 .. Expiration
            /\ seen' \in [0 .. Expiration -> SUBSET Statements]
            /\ \A k \in 0 .. Expiration : seen[k] \subseteq seen'[k]
    <2>1. CASE Vdsm!Answers /\ Vdsm!Report(g, Vdsm!OfApi(g, guest))
      BY <2>1, VdsmAnswers DEF Statements
    <2>2. CASE Vdsm!Fails /\ Vdsm!Report(g, Vdsm!OfApi(g, Vdsm!Failed))
      BY <2>2, VdsmFails
    <2>3. QED BY <2>1, <2>2 DEF Vdsm!CollectApi
  <1>3. last' = [group |-> g, result |-> ResultOf(Vdsm!OfApi(g, s))]
    BY <1>2 DEF Vdsm!Report, ResultOf
  <1>4. ResultOf(Vdsm!OfApi(g, s)) = Vdsm!Says(s, g)
    BY ApiSays
  <1>5. Vdsm!SampleIsVdsms'
    BY <1>2, <1>3, <1>4, GuestSays
  <1>6. StatsKept' /\ TuneKept'
    BY <1>1, <1>2, StatsStayKept, TuneStaysKept
  <1>7. guest' \in Heard /\ guest' \in seen'[0] /\ tune' = tune /\ stats' = stats
    BY <1>1, <1>2 DEF VdsmInv
  <1>8. QED BY <1>2, <1>5, <1>6, <1>7 DEF VdsmInv

\* GuestIoTune either goes on to the limits or reports.
LEMMA IoTuneSays ==
    ASSUME VdsmInv, NEW r, Vdsm!IoTune(r), NEW k \in 0 .. Expiration, NEW s \in seen'[k],
           ResultOf(r) = Vdsm!Says(s, "io")
    PROVE  Vdsm!SampleIsVdsms'
  <1>1. CASE last' = Vdsm!NoReport
    BY <1>1, NoneSays
  <1>2. CASE Vdsm!Report("io", r)
    <2>1. last' = [group |-> "io", result |-> ResultOf(r)]
      BY <1>2 DEF Vdsm!Report, ResultOf
    <2>2. QED BY <2>1, GuestSays
  <1>3. QED BY <1>1, <1>2 DEF Vdsm!IoTune

LEMMA VdsmGetIoTune == ASSUME VdsmInv, Vdsm!GetIoTune PROVE VdsmInv'
  <1>1. UNCHANGED guest /\ UNCHANGED tune /\ UNCHANGED stats
    BY DEF Vdsm!GetIoTune
  <1>2. /\ Vdsm!SampleIsVdsms' /\ guest \in seen'[0]
        /\ seen' \in [0 .. Expiration -> SUBSET Statements]
        /\ \A k \in 0 .. Expiration : seen[k] \subseteq seen'[k]
    <2>1. CASE Vdsm!Answers /\ Vdsm!IoTune(Vdsm!Listed(guest))
      BY <2>1, VdsmAnswers, ListSays, IoTuneSays
    <2>2. CASE Vdsm!Fails /\ Vdsm!IoTune("None")
      <3>1. ResultOf("None") = "nothing"
        BY VdsmNumbers DEF ResultOf
      <3>2. guest \in seen[0]
        BY DEF VdsmInv
      <3>3. QED BY <2>2, <3>1, <3>2, VdsmFails, IoTuneSays
    <2>3. QED BY <2>1, <2>2 DEF Vdsm!GetIoTune
  <1>3. StatsKept' /\ TuneKept'
    BY <1>1, <1>2, StatsStayKept, TuneStaysKept
  <1>4. guest' \in Heard /\ guest' \in seen'[0] /\ tune' = tune /\ stats' = stats
    BY <1>1, <1>2 DEF VdsmInv
  <1>5. QED BY <1>2, <1>3, <1>4 DEF VdsmInv

LEMMA VdsmGetAllIoTune == ASSUME VdsmInv, Vdsm!GetAllIoTune PROVE VdsmInv'
  <1> DEFINE P == {Vdsm!Missing} \cup {Vdsm!Optional(s) : s \in Heard}
  <1>1. UNCHANGED guest /\ UNCHANGED stats
    BY DEF Vdsm!GetAllIoTune
  <1>2. guest \in Heard /\ guest \in seen[0] /\ tune \in [age : Nat, vms : P] /\ TuneKept
    BY DEF VdsmInv
  <1>3. Vdsm!Missing \in P /\ Vdsm!Optional(guest) \in P
    BY <1>2
  <1> HIDE DEF P
  <1>4. /\ Vdsm!SampleIsVdsms' /\ tune' \in [age : Nat, vms : P] /\ TuneKept'
        /\ guest \in seen'[0] /\ seen' \in [0 .. Expiration -> SUBSET Statements]
        /\ \A k \in 0 .. Expiration : seen[k] \subseteq seen'[k]
    <2>1. CASE Vdsm!Fresh(tune) /\ Vdsm!Answers /\ Vdsm!IoTune(Vdsm!OfPolicies(tune.vms))
               /\ UNCHANGED tune
      <3>1. tune.age \in 0 .. Expiration
        BY <1>2, <2>1, VdsmNumbers DEF Vdsm!Fresh
      <3>2. PICK s \in seen[tune.age] : PolicyOf(tune.vms, s)
        BY <1>2, <3>1 DEF TuneKept
      <3>3. s \in Statements /\ s \in seen'[tune.age]
        BY <2>1, <3>1, <3>2, VdsmAnswers
      <3>4. ResultOf(Vdsm!OfPolicies(tune.vms)) = Vdsm!Says(s, "io")
        BY <3>2, <3>3, PolicySays
      <3>5. QED BY <1>2, <2>1, <3>1, <3>3, <3>4, VdsmAnswers, IoTuneSays, TuneStaysKept
    <2>2. CASE /\ Vdsm!Answers /\ tune' = [age |-> 0, vms |-> Vdsm!Optional(guest)]
               /\ Vdsm!IoTune(Vdsm!OfPolicies(Vdsm!Optional(guest)))
      <3>1. guest \in Statements /\ PolicyOf(Vdsm!Optional(guest), guest)
        BY <1>2, RepliesDiffer DEF Statements, Heard, PolicyOf
      <3>2. ResultOf(Vdsm!OfPolicies(Vdsm!Optional(guest))) = Vdsm!Says(guest, "io")
        BY <3>1, PolicySays
      <3>3. TuneKept'
        BY <2>2, <3>1, VdsmAnswers DEF TuneKept
      <3>4. QED BY <1>3, <2>2, <3>2, <3>3, VdsmAnswers, IoTuneSays
    <2>3. CASE /\ Vdsm!Fails /\ tune' = [age |-> 0, vms |-> Vdsm!Missing]
               /\ Vdsm!IoTune(Vdsm!OfPolicies(Vdsm!Missing))
      <3>1. PolicyOf(Vdsm!Missing, Vdsm!Failed)
        BY DEF PolicyOf
      <3>2. ResultOf(Vdsm!OfPolicies(Vdsm!Missing)) = Vdsm!Says(Vdsm!Failed, "io")
        BY <2>3, <3>1, VdsmFails, PolicySays
      <3>3. TuneKept'
        BY <2>3, <3>1, VdsmFails DEF TuneKept
      <3>4. QED BY <1>2, <1>3, <2>3, <3>2, <3>3, VdsmFails, IoTuneSays
    <2>4. CASE Vdsm!Fails /\ Vdsm!IoTune("KeyError") /\ UNCHANGED tune
      <3>1. ResultOf("KeyError") = "nothing"
        BY VdsmNumbers DEF ResultOf
      <3>2. QED BY <1>2, <2>4, <3>1, VdsmFails, IoTuneSays, TuneStaysKept
    <2>5. QED BY <2>1, <2>2, <2>3, <2>4 DEF Vdsm!GetAllIoTune
  <1>5. StatsKept'
    BY <1>1, <1>4, StatsStayKept
  <1>6. guest' \in Heard /\ guest' \in seen'[0] /\ stats' = stats
    BY <1>1, <1>2, <1>4
  <1>7. QED BY <1>4, <1>5, <1>6 DEF VdsmInv, P

LEMMA VdsmStep == VdsmInv /\ [PartsNext]_partsVars => VdsmInv'
  <1> SUFFICES ASSUME VdsmInv, [PartsNext]_partsVars PROVE VdsmInv'
    OBVIOUS
  <1>1. CASE VdsmMoves
    <2>1. Vdsm!Next
      BY <1>1 DEF VdsmMoves
    <2>2. QED BY <2>1, VdsmGuestChanges, VdsmSecond, VdsmGetIoTune, VdsmGetAllIoTune,
                 VdsmCollectCached, VdsmCollectApi DEF Vdsm!Next
  <1>2. CASE UNCHANGED vdsmVars
    BY <1>2 DEF vdsmVars, VdsmInv, StatsKept, TuneKept, Vdsm!SampleIsVdsms
  <1>3. GradientMoves \/ RPMoves \/ WFMMoves \/ FitMoves \/ CountersMove \/ UNCHANGED partsVars
            => UNCHANGED vdsmVars
    BY DEF GradientMoves, RPMoves, WFMMoves, FitMoves, CountersMove, partsVars, measured
  <1>4. QED BY <1>1, <1>2, <1>3 DEF PartsNext

\* Over any interface to VDSM, with or without a cache, and whatever fails: a
\* collector reports what VDSM says, or said within CACHE_EXPIRATION.
THEOREM CollectorsReportVdsm == PartsSpec => []SampleIsVdsms
  <1>1. VdsmInv => SampleIsVdsms
    BY DEF VdsmInv, SampleIsVdsms
  <1>2. QED BY <1>1, VdsmInit, VdsmStep, PTL DEF PartsSpec
-----------------------------------------------------------------------------
(* Fitting. *)

\* The sample with which the first ideal comes; the sample that is rated k-th, and
\* the number of the ideal by which sample i is rated.
Warmed == FitLen + FitWindow - 1
At(k) == IF k <= Warmed THEN k ELSE k - 1
Due(i) == IF i <= Warmed THEN 1 ELSE i - Warmed + 1

FitType ==
    /\ users \in Seq(Nat) /\ ideals \in Seq(Int) /\ ins_speed \in Seq(Int \X Int)
    /\ \E S : ave_users \in Seq(S)

FitInv ==
    /\ FitType
    /\ Len(ave_users) = IF Len(users) >= FitLen THEN Len(users) - FitLen + 1 ELSE 0
    /\ Len(ideals) = IF Len(users) >= Warmed THEN Len(users) - Warmed + 1 ELSE 0
    /\ status = IF Len(ideals) = 0 THEN 1 ELSE 2
    /\ Len(ins_speed) = IF Len(ideals) = 0 THEN 0 ELSE Len(users) + 1
    /\ \A k \in 1 .. Len(ins_speed) : ins_speed[k] = Fit!Speed(ideals[Due(At(k))], users[At(k)])

LEMMA FitNumbers == FitLen \in Nat /\ FitLen > 0 /\ FitWindow \in Nat /\ FitWindow > 0
                    /\ Progress \subseteq Nat /\ Ideals \subseteq Int
                    /\ Warmed \in Nat /\ Warmed > 0 /\ Warmed = FitLen + FitWindow - 1
  BY PoliciesAssumption DEF Warmed

LEMMA Concatenation ==
    ASSUME NEW S, NEW a \in Seq(S), NEW b \in Seq(S)
    PROVE  /\ a \o b \in Seq(S) /\ Len(a \o b) = Len(a) + Len(b)
           /\ \A i \in 1 .. Len(a) : (a \o b)[i] = a[i]
           /\ \A i \in 1 .. Len(b) : (a \o b)[Len(a) + i] = b[i]
  OBVIOUS

LEMMA FitInit == PartsInit => FitInv
  <1> SUFFICES ASSUME Fit!Init PROVE FitInv
    BY DEF PartsInit
  <1>1. users = <<>> /\ ave_users = <<>> /\ ins_speed = <<>> /\ ideals = <<>> /\ status = 1
    BY DEF Fit!Init
  <1>2. FitType
    <2>1. ave_users \in Seq({})
      BY <1>1
    <2>2. QED BY <1>1, <2>1 DEF FitType
  <1>3. Len(users) = 0 /\ Len(ave_users) = 0 /\ Len(ins_speed) = 0 /\ Len(ideals) = 0
    BY <1>1
  <1>4. QED BY <1>1, <1>2, <1>3, FitNumbers DEF FitInv

\* A speed is a share.
LEMMA SpeedIsShare ==
    ASSUME NEW d \in Int, NEW u \in Nat
    PROVE  LET r == Fit!Speed(d, u) IN
           /\ r \in Int \X Int /\ 0 <= r[1] /\ r[1] <= r[2] /\ r[2] > 0
           /\ r[1] * Fit!Standard(d, u) = u * r[2]
  <1> DEFINE x == Fit!Standard(d, u)
  <1>1. x \in Int /\ u <= x
    BY DEF Fit!Standard
  <1>2. Fit!Speed(d, u) = IF x # 0 THEN <<u, x>> ELSE <<1, 1>>
    BY DEF Fit!Speed
  <1> HIDE DEF x
  <1>3. CASE x # 0
    BY <1>1, <1>2, <1>3 DEF x
  <1>4. CASE x = 0
    <2>1. u = 0
      BY <1>1, <1>4
    <2>2. Fit!Speed(d, u) = <<1, 1>> /\ 1 * x = u * 1
      BY <1>2, <1>4, <2>1
    <2>3. QED BY <2>2 DEF x
  <1>5. QED BY <1>3, <1>4

LEMMA FitStep ==
    ASSUME FitInv, NEW u \in Progress, Fit!Update(u)
    PROVE  FitInv'
  <1> DEFINE n == Len(users)
  <1>1. u \in Nat /\ users \in Seq(Nat) /\ n \in Nat
    BY FitNumbers DEF FitInv, FitType
  <1>2. users' = Append(users, u)
    BY DEF Fit!Update
  <1>3. users' \in Seq(Nat) /\ Len(users') = n + 1 /\ users'[n + 1] = u
        /\ \A i \in 1 .. n : users'[i] = users[i]
    BY <1>1, <1>2
  <1>4. /\ \E S : ave_users' \in Seq(S)
        /\ Len(ave_users') = IF Len(users') >= FitLen THEN Len(users') - FitLen + 1 ELSE 0
    <2>1. ave_users' = ave_users \o Fit!MeanValue(users')
      BY DEF Fit!Update
    <2>2. PICK S : ave_users \in Seq(S)
      BY DEF FitInv, FitType
    <2>3. Len(ave_users) = IF n >= FitLen THEN n - FitLen + 1 ELSE 0
      BY DEF FitInv
    <2>4. CASE Len(users') >= FitLen
      <3> DEFINE x == Fit!Total(Fit!Slice(users'))
                 T == S \cup {x}
      <3>1. ave_users' = ave_users \o <<x>>
        BY <2>1, <2>4 DEF Fit!MeanValue
      <3> HIDE DEF x
      <3>2. ave_users \in Seq(T) /\ x \in T
        BY <2>2
      <3> HIDE DEF T
      <3>3. ave_users' \in Seq(T) /\ Len(ave_users') = Len(ave_users) + 1
        BY <3>1, <3>2
      <3>4. QED BY <1>1, <1>3, <2>3, <2>4, <3>3, FitNumbers
    <2>5. CASE ~(Len(users') >= FitLen)
      <3>1. ave_users' = ave_users \o << >>
        BY <2>1, <2>5 DEF Fit!MeanValue
      <3>2. ave_users' = ave_users
        BY <2>2, <3>1
      <3>3. QED BY <1>1, <1>3, <2>2, <2>3, <2>5, <3>2, FitNumbers
    <2>6. QED BY <2>4, <2>5
  <1>5. Fit!Warm(ave_users') <=> n + 1 >= Warmed
    BY <1>1, <1>3, <1>4, FitNumbers DEF Fit!Warm
  <1>6. /\ ideals \in Seq(Int) /\ ins_speed \in Seq(Int \X Int)
        /\ Len(ideals) = IF n >= Warmed THEN n - Warmed + 1 ELSE 0
        /\ status = IF Len(ideals) = 0 THEN 1 ELSE 2
        /\ Len(ins_speed) = IF Len(ideals) = 0 THEN 0 ELSE n + 1
        /\ \A k \in 1 .. Len(ins_speed) : ins_speed[k] = Fit!Speed(ideals[Due(At(k))], users[At(k)])
    BY DEF FitInv, FitType
  <1> HIDE DEF n
  <1>7. CASE ~(n + 1 >= Warmed)
    <2>1. UNCHANGED <<ins_speed, status, ideals>>
      BY <1>5, <1>7 DEF Fit!Update
    <2>2. Len(ideals) = 0 /\ Len(ins_speed) = 0
      BY <1>1, <1>6, <1>7, FitNumbers
    <2>3. QED BY <1>1, <1>3, <1>4, <1>6, <1>7, <2>1, <2>2, FitNumbers DEF FitInv, FitType
  <1>8. CASE n + 1 >= Warmed
    <2>1. PICK ideal \in Ideals : /\ ideals' = Append(ideals, ideal)
                                  /\ Fit!AppendStandard(ideal, Fit!Rated(users'))
      BY <1>5, <1>8 DEF Fit!Update
    <2>2. status' = 2 /\ ideal \in Int
      BY <1>5, <1>8, FitNumbers DEF Fit!Update
    <2> DEFINE us == Fit!Rated(users')
               new == [i \in DOMAIN us |-> Fit!Speed(ideal, us[i])]
    <2>3. ideals' \in Seq(Int) /\ Len(ideals') = Len(ideals) + 1
          /\ ideals'[Len(ideals) + 1] = ideal
          /\ \A i \in 1 .. Len(ideals) : ideals'[i] = ideals[i]
      BY <1>6, <2>1, <2>2
    <2>4. Len(ideals') = n + 1 - Warmed + 1 /\ Len(ideals') > 0
      BY <1>1, <1>6, <1>8, <2>3, FitNumbers
    <2>5. ins_speed' = ins_speed \o new
      BY <2>1 DEF Fit!AppendStandard
    <2>6. us = (IF status = 1 THEN users' ELSE <<>>) \o <<u>>
      <3>1. Fit!Last(users') = u
        BY <1>1, <1>3 DEF Fit!Last
      <3>2. QED BY <3>1 DEF Fit!Rated
    <2>7. \A i \in Nat : us \in Seq(Nat) /\ (i \in DOMAIN us <=> i \in 1 .. Len(us))
      BY <1>1, <1>3, <2>6
    <2> HIDE DEF us
    <2>8. new \in Seq(Int \X Int) /\ Len(new) = Len(us)
          /\ \A i \in 1 .. Len(us) : new[i] = Fit!Speed(ideal, us[i])
      <3>1. us \in Seq(Nat) /\ DOMAIN us = 1 .. Len(us) /\ Len(us) \in Nat
        BY <2>7
      <3>2. \A i \in 1 .. Len(us) : us[i] \in Nat
        BY <3>1
      <3>3. \A i \in 1 .. Len(us) : Fit!Speed(ideal, us[i]) \in Int \X Int
        BY <2>2, <3>2, SpeedIsShare
      <3>4. QED BY <3>1, <3>3
    <2> HIDE DEF new
    <2>9. /\ ins_speed' \in Seq(Int \X Int) /\ Len(ins_speed') = Len(ins_speed) + Len(us)
          /\ \A k \in 1 .. Len(ins_speed) : ins_speed'[k] = ins_speed[k]
          /\ \A i \in 1 .. Len(us) : ins_speed'[Len(ins_speed) + i] = Fit!Speed(ideal, us[i])
      <3>1. ins_speed \in Seq(Int \X Int) /\ new \in Seq(Int \X Int)
        BY <1>6, <2>8
      <3> DEFINE r == ins_speed \o new
      <3>2. /\ r \in Seq(Int \X Int) /\ Len(r) = Len(ins_speed) + Len(new)
            /\ \A i \in 1 .. Len(ins_speed) : r[i] = ins_speed[i]
            /\ \A i \in 1 .. Len(new) : r[Len(ins_speed) + i] = new[i]
        BY ONLY <3>1, Concatenation
      <3> HIDE DEF r
      <3>3. ins_speed' = r
        BY <2>5 DEF r
      <3>4. Len(new) = Len(us) /\ \A i \in 1 .. Len(us) : new[i] = Fit!Speed(ideal, us[i])
        BY <2>8
      <3>5. QED BY ONLY <3>2, <3>3, <3>4
    <2>10. ASSUME Len(ins_speed') = n + 2,
                  \A k \in 1 .. n + 2 :
                      ins_speed'[k] = Fit!Speed(ideals'[Due(At(k))], users'[At(k)])
           PROVE  FitInv'
      <3>1. FitType'
        BY <1>3, <1>4, <2>3, <2>9 DEF FitType
      <3>2. Len(ideals') = IF Len(users') >= Warmed THEN Len(users') - Warmed + 1 ELSE 0
        <4>1. Len(users') >= Warmed
          BY <1>3, <1>8
        <4>2. Len(ideals') = Len(users') - Warmed + 1
          BY <1>1, <1>3, <2>4, FitNumbers
        <4>3. QED BY ONLY <4>1, <4>2
      <3>3. status' = IF Len(ideals') = 0 THEN 1 ELSE 2
        BY <2>2, <2>4
      <3>4. Len(ins_speed') = IF Len(ideals') = 0 THEN 0 ELSE Len(users') + 1
        BY <1>1, <1>3, <2>4, <2>10
      <3>5. \A k \in 1 .. Len(ins_speed') :
                ins_speed'[k] = Fit!Speed(ideals'[Due(At(k))], users'[At(k)])
        BY <2>10
      <3>6. QED BY <1>4, <3>1, <3>2, <3>3, <3>4, <3>5 DEF FitInv
    <2>11. CASE status = 1
      <3>1. Len(ideals) = 0 /\ Len(ins_speed) = 0 /\ n + 1 = Warmed
        BY <1>1, <1>6, <1>8, <2>11, FitNumbers
      <3>2. us = users' \o <<u>>
        BY <2>6, <2>11
      <3>3. Len(us) = n + 2 /\ us[n + 2] = u /\ \A i \in 1 .. n + 1 : us[i] = users'[i]
        BY <1>1, <1>3, <3>2
      <3>4. Len(ins_speed') = n + 2
            /\ \A k \in 1 .. n + 2 : ins_speed'[k] = Fit!Speed(ideal, us[k])
        BY <1>1, <2>9, <3>1, <3>3
      <3>5. ASSUME NEW k \in 1 .. n + 2
            PROVE  ins_speed'[k] = Fit!Speed(ideals'[Due(At(k))], users'[At(k)])
        <4>1. Due(At(k)) = 1 /\ us[k] = users'[At(k)]
          BY <1>1, <1>3, <3>1, <3>3 DEF Due, At
        <4>2. ideals'[1] = ideal
          BY <2>3, <3>1
        <4>3. QED BY <3>4, <4>1, <4>2
      <3>6. QED BY <2>10, <3>4, <3>5
    <2>12. CASE status # 1
      <3>1. Len(ideals) > 0 /\ Len(ins_speed) = n + 1 /\ n >= Warmed
        BY <1>1, <1>6, <1>8, <2>12, FitNumbers
      <3>2. us = <<>> \o <<u>>
        BY <2>6, <2>12
      <3>3. Len(us) = 1 /\ us[1] = u
        BY <1>1, <3>2
      <3>4. Len(ins_speed') = n + 2 /\ ins_speed'[n + 2] = Fit!Speed(ideal, u)
        BY <1>1, <2>9, <3>1, <3>3
      <3>5. ASSUME NEW k \in 1 .. n + 2
            PROVE  ins_speed'[k] = Fit!Speed(ideals'[Due(At(k))], users'[At(k)])
        <4>1. CASE k = n + 2
          <5>1. At(k) = n + 1 /\ Due(At(k)) = Len(ideals) + 1
            BY <1>1, <2>3, <2>4, <3>1, <4>1, FitNumbers DEF Due, At
          <5>2. QED BY <1>3, <2>3, <3>4, <4>1, <5>1
        <4>2. CASE k # n + 2
          <5>1. k \in 1 .. n + 1 /\ At(k) \in 1 .. n /\ Due(At(k)) \in 1 .. Len(ideals)
            BY <1>1, <2>3, <2>4, <3>1, <4>2, FitNumbers DEF Due, At
          <5>2. ins_speed'[k] = ins_speed[k]
                /\ ins_speed[k] = Fit!Speed(ideals[Due(At(k))], users[At(k)])
            BY <1>6, <2>9, <3>1, <5>1
          <5>3. QED BY <1>3, <2>3, <5>1, <5>2
        <4>3. QED BY <4>1, <4>2
      <3>6. QED BY <2>10, <3>4, <3>5
    <2>13. QED BY <2>11, <2>12
  <1>9. QED BY <1>7, <1>8

LEMMA FitMovesOn == FitInv /\ [PartsNext]_partsVars => FitInv'
  <1> SUFFICES ASSUME FitInv, [PartsNext]_partsVars PROVE FitInv'
    OBVIOUS
  <1>1. CASE FitMoves
    <2>1. PICK u \in Progress : Fit!Update(u)
      BY <1>1 DEF FitMoves, Fit!Next
    <2>2. QED BY <2>1, FitStep
  <1>2. CASE UNCHANGED fitVars
    BY <1>2 DEF fitVars, FitInv, FitType
  <1>3. GradientMoves \/ RPMoves \/ WFMMoves \/ VdsmMoves \/ CountersMove \/ UNCHANGED partsVars
            => UNCHANGED fitVars
    BY DEF GradientMoves, RPMoves, WFMMoves, VdsmMoves, CountersMove, partsVars, measured
  <1>4. QED BY <1>1, <1>2, <1>3 DEF PartsNext

\* A VM's speed is the mean over every sample since the VM was seen first, each
\* rated once, by the first ideal after it, and the newest of the first round twice.
THEOREM SamplesAreRated == PartsSpec => []EverySampleIsRated
  <1>1. FitInv => Fit!EverySampleIsRated
    <2> SUFFICES ASSUME FitInv PROVE Fit!EverySampleIsRated
      OBVIOUS
    <2> DEFINE n == Len(users)
    <2>1. /\ users \in Seq(Nat) /\ ideals \in Seq(Int) /\ ins_speed \in Seq(Int \X Int) /\ n \in Nat
          /\ Len(ideals) = IF n >= Warmed THEN n - Warmed + 1 ELSE 0
          /\ Len(ins_speed) = IF Len(ideals) = 0 THEN 0 ELSE n + 1
          /\ (\A i \in 1 .. n : users[i] \in Nat) /\ Len(ideals) \in Nat
          /\ \A i \in 1 .. Len(ideals) : ideals[i] \in Int
      <3>1. users \in Seq(Nat) /\ ideals \in Seq(Int) /\ ins_speed \in Seq(Int \X Int)
        BY DEF FitInv, FitType
      <3>2. /\ n \in Nat /\ (\A i \in 1 .. n : users[i] \in Nat) /\ Len(ideals) \in Nat
            /\ \A i \in 1 .. Len(ideals) : ideals[i] \in Int
        BY <3>1
      <3>3. QED BY <3>1, <3>2 DEF FitInv
    <2>2. CASE ideals = <<>>
      <3>1. Len(ins_speed) = 0
        BY <2>1, <2>2
      <3>2. ins_speed = <<>>
        BY <2>1, <3>1
      <3>3. QED BY <2>2, <3>2 DEF Fit!EverySampleIsRated
    <2>3. CASE ideals # <<>>
      <3>1. Len(ideals) # 0
        BY <2>1, <2>3
      <3> HIDE DEF n
      <3>2. n - Len(ideals) + 1 = Warmed /\ n >= Warmed /\ Len(ins_speed) = n + 1
        BY <2>1, <3>1, FitNumbers
      <3>3. ASSUME NEW k \in 1 .. n + 1
            PROVE  LET r == ins_speed[k]  u == users[At(k)]  d == ideals[Due(At(k))] IN
                   /\ 0 <= r[1] /\ r[1] <= r[2] /\ r[2] > 0 /\ r[1] * Fit!Standard(d, u) = u * r[2]
        <4>1. At(k) \in 1 .. n /\ Due(At(k)) \in 1 .. Len(ideals)
          BY <2>1, <3>2, FitNumbers DEF At, Due
        <4>2. users[At(k)] \in Nat /\ ideals[Due(At(k))] \in Int
          BY <2>1, <4>1
        <4>3. ins_speed[k] = Fit!Speed(ideals[Due(At(k))], users[At(k)])
          BY <3>2 DEF FitInv, n
        <4>4. QED BY <4>2, <4>3, SpeedIsShare
      <3>4. DOMAIN ins_speed = 1 .. n + 1
        BY <2>1, <3>2
      <3>5. \A i : ideals[Due(i)] = IF i <= Warmed THEN ideals[1] ELSE ideals[i - Warmed + 1]
        BY DEF Due
      <3>6. QED BY <2>3, <3>2, <3>3, <3>4, <3>5, FitNumbers DEF Fit!EverySampleIsRated, At, n
    <2>4. QED BY <2>2, <2>3
  <1>2. FitInv => EverySampleIsRated
    BY <1>1 DEF EverySampleIsRated
  <1>3. QED BY <1>2, FitInit, FitMovesOn, PTL DEF PartsSpec
=============================================================================
