---------------------------- MODULE MonitorProof ----------------------------
(* Theorems about Monitor, for every number of readers and collectors and  *)
(* every history length.                                                   *)
EXTENDS Monitor, TLAPS

LEMMA DataType ==
    ASSUME data \in Data
    PROVE  /\ DOMAIN data \subseteq valid_fields
           /\ data \in [DOMAIN data -> 0..NumCollectors]
  BY DEF Data

LEMMA DataIntro ==
    ASSUME NEW ks \in SUBSET valid_fields, NEW f \in [ks -> 0..NumCollectors]
    PROVE  f \in Data
  BY DEF Data

LEMMA CollectorFields ==
    ASSUME NEW c \in Collectors
    PROVE  /\ getFields[c] \subseteq valid_fields
           /\ getOptionalFields[c] \subseteq valid_fields
  BY DEF valid_fields, fields, optional_fields

LEMMA TypeStep == TypeOK /\ [Next]_vars => TypeOK'
  <1> SUFFICES ASSUME TypeOK, [Next]_vars PROVE TypeOK'
    OBVIOUS
  <1> USE CollectorAssumption, HistoryAssumption
  <1>1. CASE BeginPass
    <2>1. NoData \in Data
      <3>1. {} \in SUBSET valid_fields /\ NoData \in [{} -> 0..NumCollectors]
        BY DEF NoData
      <3>2. QED BY <3>1, DataIntro
    <2>2. QED BY <1>1, <2>1 DEF TypeOK, BeginPass, readerVars
  <1>2. CASE EndThread
    BY <1>2 DEF TypeOK, EndThread, collectVars, readerVars
  <1>3. CASE CollectorReturns
    <2>1. PICK keys \in SUBSET (getFields[turn] \cup getOptionalFields[turn]) :
            \E vals \in SUBSET keys :
               /\ data' = Merged(turn, keys, vals)
               /\ reported' = [reported EXCEPT ![turn] = vals]
      BY <1>3 DEF CollectorReturns
    <2>2. PICK vals \in SUBSET keys :
               /\ data' = Merged(turn, keys, vals)
               /\ reported' = [reported EXCEPT ![turn] = vals]
      BY <2>1
    <2>3. turn \in Collectors
      BY <1>3 DEF CollectorReturns
    <2>4. keys \subseteq valid_fields /\ vals \subseteq valid_fields
      BY <2>3, CollectorFields
    <2>5. data' \in Data
      <3>1. DOMAIN data \cup keys \in SUBSET valid_fields
        BY <2>4, DataType DEF TypeOK
      <3>2. data' \in [DOMAIN data \cup keys -> 0..NumCollectors]
        BY <2>2, <2>3, DataType DEF TypeOK, Merged, Collectors
      <3>3. QED BY <3>1, <3>2, DataIntro
    <2>6. QED
      BY <1>3, <2>2, <2>3, <2>4, <2>5
      DEF TypeOK, CollectorReturns, readerVars, Collectors
  <1>4. CASE CollectorGivesNothing
    BY <1>4 DEF TypeOK, CollectorGivesNothing, readerVars, Collectors
  <1>5. CASE CollectorFatal
    BY <1>5 DEF TypeOK, CollectorFatal, collectVars, readerVars
  <1>6. CASE Incomplete
    BY <1>6 DEF TypeOK, Incomplete, collectVars, readerVars
  <1>7. CASE Complete
    <2>1. DOMAIN data \cup optional_fields \in SUBSET valid_fields
      BY DataType DEF TypeOK, valid_fields
    <2>2. data' \in [DOMAIN data \cup optional_fields -> 0..NumCollectors]
      BY <1>7, DataType DEF TypeOK, Complete
    <2>3. data' \in Data
      BY <2>1, <2>2, DataIntro
    <2>4. DOMAIN data \cup optional_fields = valid_fields
      BY <1>7, DataType DEF TypeOK, Complete, valid_fields
    <2>5. DOMAIN data' = valid_fields
      BY <1>7, <2>4 DEF Complete
    <2>6. QED BY <1>7, <2>3, <2>5 DEF TypeOK, Complete, readerVars
  <1>8. CASE AcquireForRow
    BY <1>8 DEF TypeOK, AcquireForRow, collectVars, readerVars
  <1>9. CASE AppendRow
    <2>1. [n |-> pass, data |-> data] \in Row
      BY <1>9, DataType DEF TypeOK, AppendRow, Row
    <2>2. QED BY <1>9, <2>1 DEF TypeOK, AppendRow, collectVars, readerVars
  <1>10. CASE TrimAndRelease
    <2>1. Trimmed(statistics) \in Seq(Row)
      BY DEF TypeOK, Trimmed
    <2>2. Len(Trimmed(statistics)) <= HistoryLength
      BY <1>10 DEF TypeOK, Trimmed, TrimAndRelease
    <2>3. QED BY <1>10, <2>1, <2>2 DEF TypeOK, TrimAndRelease, collectVars, readerVars
  <1>11. CASE SetReady
    BY <1>11 DEF TypeOK, SetReady, collectVars, readerVars
  <1>12. CASE Terminate
    BY <1>12 DEF TypeOK, Terminate, collectVars, readerVars
  <1>13. ASSUME NEW r \in Readers, Reader(r) PROVE TypeOK'
    <2>1. CASE InterrogateNotReady(r)
      BY <2>1 DEF TypeOK, InterrogateNotReady, collectVars
    <2>2. CASE InterrogateReady(r)
      BY <2>2 DEF TypeOK, InterrogateReady, collectVars
    <2>3. CASE AcquireForCopy(r)
      BY <2>3 DEF TypeOK, AcquireForCopy, collectVars
    <2>4. CASE CopyRow(r)
      <3>1. entity[r] \in Seq(Row)
        BY <2>4 DEF TypeOK, CopyRow
      <3>2. statistics[Len(entity[r]) + 1] \in Row
        BY <2>4, <3>1 DEF TypeOK, CopyRow
      <3>3. Append(entity[r], statistics[Len(entity[r]) + 1]) \in Seq(Row)
        BY <3>1, <3>2
      <3>4. QED BY <2>4, <3>3 DEF TypeOK, CopyRow, collectVars
    <2>5. CASE ReleaseAndReturn(r)
      BY <2>5 DEF TypeOK, ReleaseAndReturn, collectVars
    <2>6. QED
      BY <1>13, <2>1, <2>2, <2>3, <2>4, <2>5 DEF Reader
  <1>14. CASE UNCHANGED vars
    BY <1>14 DEF TypeOK, vars, collectVars, readerVars
  <1>15. QED
    BY <1>1, <1>2, <1>3, <1>4, <1>5, <1>6, <1>7, <1>8, <1>9, <1>10, <1>11,
       <1>12, <1>13, <1>14 DEF Next, CollectorThread

THEOREM TypeCorrect == Spec => []TypeOK
  <1>1. ASSUME Init PROVE TypeOK
    <2>1. NoData \in Data
      <3>1. {} \in SUBSET valid_fields /\ NoData \in [{} -> 0..NumCollectors]
        BY DEF NoData
      <3>2. QED BY <3>1, DataIntro
    <2>2. statistics \in Seq(Row) /\ Len(statistics) = 0
      BY <1>1 DEF Init
    <2>3. \A r \in Readers : entity[r] = NoEntity /\ rpc[r] = "idle"
      BY <1>1 DEF Init
    <2>4. /\ entity \in [Readers -> Seq(Row) \cup {NoEntity}]
          /\ rpc \in [Readers -> {"idle", "acquire", "copy"}]
      BY <1>1 DEF Init
    <2>5. reported \in [Collectors -> SUBSET valid_fields]
      BY <1>1 DEF Init
    <2>6. pass \in 0..MaxPasses /\ turn \in 1..(NumCollectors + 1)
      BY <1>1, CollectorAssumption DEF Init
    <2>7. Len(statistics) <= HistoryLength + (IF pc = "trim" THEN 1 ELSE 0)
      BY <1>1, <2>2, HistoryAssumption DEF Init
    <2>8. QED
      BY <1>1, <2>1, <2>2, <2>3, <2>4, <2>5, <2>6, <2>7 DEF Init, TypeOK
  <1>2. QED
    BY <1>1, TypeStep, PTL DEF Spec

-----------------------------------------------------------------------------
LEMMA OneInsideStep == TypeOK /\ OneInside /\ [Next]_vars => OneInside'
  <1> SUFFICES ASSUME TypeOK, OneInside, [Next]_vars PROVE OneInside'
    OBVIOUS
  <1> USE DEF OneInside, WriterInside, ReaderInside, TypeOK
  <1>1. CASE AcquireForRow
    BY <1>1 DEF AcquireForRow, collectVars, readerVars
  <1>2. CASE AppendRow
    BY <1>2 DEF AppendRow, collectVars, readerVars
  <1>3. CASE TrimAndRelease
    BY <1>3 DEF TrimAndRelease, collectVars, readerVars
  <1>4. CASE BeginPass \/ EndThread \/ CollectorReturns \/ CollectorGivesNothing
             \/ CollectorFatal \/ Incomplete \/ Complete \/ SetReady \/ Terminate
             \/ UNCHANGED vars
    <2>1. UNCHANGED <<data_sem, rpc>>
      BY <1>4 DEF BeginPass, EndThread, CollectorReturns, CollectorGivesNothing,
           CollectorFatal, Incomplete, Complete, SetReady, Terminate, vars,
           readerVars
    <2>2. ~WriterInside' <=> ~WriterInside
      BY <1>4 DEF BeginPass, EndThread, CollectorReturns, CollectorGivesNothing,
           CollectorFatal, Incomplete, Complete, SetReady, Terminate, vars
    <2>3. QED BY <2>1, <2>2
  <1>5. ASSUME NEW r \in Readers, Reader(r) PROVE OneInside'
    <2>1. CASE InterrogateNotReady(r)
      BY <2>1 DEF InterrogateNotReady
    <2>2. CASE InterrogateReady(r)
      BY <2>2 DEF InterrogateReady
    <2>3. CASE AcquireForCopy(r)
      BY <2>3 DEF AcquireForCopy
    <2>4. CASE CopyRow(r)
      BY <2>4 DEF CopyRow
    <2>5. CASE ReleaseAndReturn(r)
      BY <2>5 DEF ReleaseAndReturn
    <2>6. QED
      BY <1>5, <2>1, <2>2, <2>3, <2>4, <2>5 DEF Reader
  <1>6. QED
    BY <1>1, <1>2, <1>3, <1>4, <1>5 DEF Next, CollectorThread

\* data_sem is a mutual exclusion lock: at most one thread works on the
\* deque, and the semaphore is free exactly when none does.
THEOREM MutualExclusion == Spec => []OneInside
  <1>1. Init => OneInside
    BY DEF Init, OneInside, WriterInside, ReaderInside
  <1>2. QED
    BY <1>1, TypeCorrect, OneInsideStep, PTL DEF Spec

-----------------------------------------------------------------------------
(* What the deque holds at each point of a pass.  This is what makes the   *)
(* readiness flag and the entities right: the flag is read and written     *)
(* without the semaphore.                                                  *)
InPass == pc \in {"collecting", "acquire", "append"}

RowsOfPasses ==
    /\ Increasing(statistics)
    /\ \A i \in 1..Len(statistics) :
          statistics[i].n <= pass /\ (InPass => statistics[i].n < pass)

\* A row, once stored, keeps the deque from becoming empty.
HasRow ==
    pc \in {"trim", "publish"} \/ ready = "True" \/ (\E r \in Readers : rpc[r] # "idle")
        => Len(statistics) >= 1

LastRow ==
    /\ pc \in {"trim", "publish"} => statistics[Len(statistics)].n = pass
    /\ ready = "True" => statistics[Len(statistics)].n = IF InPass THEN pass - 1 ELSE pass

\* A fatal error has stopped the thread for good.
FatalInv == fatal => ready = "False" /\ stop /\ pc \in {"idle", "ended"}

HistoryInv == RowsOfPasses /\ HasRow /\ LastRow

LEMMA AppendIncreasing ==
    ASSUME NEW s \in Seq(Row), NEW x \in Row, Increasing(s),
           \A i \in 1..Len(s) : s[i].n < x.n
    PROVE  Increasing(Append(s, x))
  <1> DEFINE t == Append(s, x)
  <1>1. /\ Len(t) = Len(s) + 1 /\ t[Len(t)] = x /\ Len(s) \in Nat
        /\ \A i \in 1..Len(s) : t[i] = s[i]
    OBVIOUS
  <1>2. ASSUME NEW i \in 1..Len(t), NEW j \in 1..Len(t), i < j
        PROVE  t[i].n < t[j].n
    <2>1. CASE j = Len(t)
      BY <1>1, <1>2, <2>1
    <2>2. CASE j # Len(t)
      BY <1>1, <1>2, <2>2 DEF Increasing
    <2>3. QED BY <2>1, <2>2
  <1>3. QED BY <1>2 DEF Increasing

LEMMA TailRows ==
    ASSUME NEW s \in Seq(Row), Len(s) >= 1
    PROVE  /\ Tail(s) \in Seq(Row) /\ Len(Tail(s)) = Len(s) - 1
           /\ \A i \in 1..Len(Tail(s)) : Tail(s)[i] = s[i + 1]
  OBVIOUS

LEMMA TrimmedRows ==
    ASSUME NEW s \in Seq(Row), Len(s) >= 1, Increasing(s)
    PROVE  /\ Trimmed(s) \in Seq(Row) /\ Increasing(Trimmed(s))
           /\ Len(Trimmed(s)) >= 1 /\ Len(Trimmed(s)) <= Len(s)
           /\ Trimmed(s)[Len(Trimmed(s))] = s[Len(s)]
           /\ \A i \in 1..Len(Trimmed(s)) : \E j \in 1..Len(s) : Trimmed(s)[i] = s[j]
  <1>1. CASE Len(s) > HistoryLength
    <2>1. Trimmed(s) = Tail(s)
      BY <1>1 DEF Trimmed
    <2>2. Len(s) >= 2
      BY <1>1, HistoryAssumption
    <2>3. Increasing(Tail(s))
      BY TailRows DEF Increasing
    <2>4. Len(Tail(s)) = Len(s) - 1 /\ Tail(s)[Len(Tail(s))] = s[Len(s)]
      BY <2>2, TailRows
    <2>5. \A i \in 1..Len(Tail(s)) : i + 1 \in 1..Len(s) /\ Tail(s)[i] = s[i + 1]
      BY <2>2, TailRows
    <2>6. QED BY <2>1, <2>2, <2>3, <2>4, <2>5, TailRows
  <1>2. CASE ~(Len(s) > HistoryLength)
    BY <1>2 DEF Trimmed
  <1>3. QED BY <1>1, <1>2

LEMMA HistoryStep == TypeOK /\ HistoryInv /\ [Next]_vars => HistoryInv'
  <1> SUFFICES ASSUME TypeOK, HistoryInv, [Next]_vars PROVE HistoryInv'
    OBVIOUS
  <1> USE DEF HistoryInv, RowsOfPasses, HasRow, LastRow, InPass
  <1>0. /\ statistics \in Seq(Row) /\ pass \in Nat
        /\ \A i \in 1..Len(statistics) : statistics[i].n \in Nat
    <2>1. statistics \in Seq(Row) /\ pass \in Nat
      BY CollectorAssumption DEF TypeOK
    <2>2. \A i \in 1..Len(statistics) : statistics[i] \in Row
      BY <2>1
    <2>3. \A row \in Row : row.n \in Nat
      BY CollectorAssumption DEF Row
    <2>4. QED BY <2>1, <2>2, <2>3
  <1>1. CASE BeginPass
    <2>1. /\ pc = "idle" /\ pc' = "collecting" /\ pass' = pass + 1
          /\ UNCHANGED <<statistics, ready, rpc>>
      BY <1>1 DEF BeginPass, readerVars
    <2>2. RowsOfPasses'
      BY <1>0, <2>1 DEF Increasing
    <2>3. HasRow'
      BY <2>1
    <2>4. LastRow'
      BY <1>0, <2>1
    <2>5. QED BY <2>2, <2>3, <2>4
  <1>2. CASE AppendRow
    <2>1. [n |-> pass, data |-> data] \in Row
      BY <1>2, DataType DEF TypeOK, AppendRow, Row
    <2>2. Increasing(statistics')
      BY <1>0, <1>2, <2>1, AppendIncreasing DEF AppendRow
    <2>3. /\ Len(statistics') = Len(statistics) + 1
          /\ statistics'[Len(statistics')].n = pass
          /\ \A i \in 1..Len(statistics) : statistics'[i] = statistics[i]
      BY <1>0, <1>2, <2>1 DEF AppendRow
    <2>4. QED
      BY <1>0, <1>2, <2>2, <2>3 DEF AppendRow, collectVars, readerVars
  <1>3. CASE TrimAndRelease
    BY <1>0, <1>3, TrimmedRows DEF TrimAndRelease, collectVars, readerVars
  <1>4. CASE EndThread \/ CollectorReturns \/ CollectorGivesNothing
             \/ Complete \/ AcquireForRow \/ Terminate \/ UNCHANGED vars
    BY <1>0, <1>4 DEF EndThread, CollectorReturns, CollectorGivesNothing,
           Complete, AcquireForRow, Terminate, vars, collectVars, readerVars
  <1>5. CASE CollectorFatal \/ Incomplete
    BY <1>0, <1>5 DEF CollectorFatal, Incomplete, collectVars, readerVars
  <1>6. CASE SetReady
    BY <1>0, <1>6 DEF SetReady, collectVars, readerVars
  <1>7. ASSUME NEW r \in Readers, Reader(r) PROVE HistoryInv'
    <2>1. UNCHANGED <<pc, pass, statistics, ready>>
      BY <1>7 DEF Reader, InterrogateNotReady, InterrogateReady, AcquireForCopy,
           CopyRow, ReleaseAndReturn, collectVars
    <2>2. (\E s \in Readers : rpc'[s] # "idle") => HasRow /\ Len(statistics) >= 1
      BY <1>7 DEF Reader, InterrogateNotReady, InterrogateReady, AcquireForCopy,
           CopyRow, ReleaseAndReturn, TypeOK
    <2>3. QED BY <2>1, <2>2
  <1>8. QED
    BY <1>1, <1>2, <1>3, <1>4, <1>5, <1>6, <1>7 DEF Next, CollectorThread

-----------------------------------------------------------------------------
(* The snapshots. *)
NothingCopiedYet == \A r \in Readers : rpc[r] = "acquire" => entity[r] = <<>>
ReaderInv == CopyIsPrefix /\ EntityWellFormed /\ NothingCopiedYet

\* A step that changes neither the deque nor the readers keeps the readers'
\* invariant.
LEMMA ReaderFrame ==
    ASSUME ReaderInv, UNCHANGED <<statistics, rpc, entity>>
    PROVE  ReaderInv'
  BY DEF ReaderInv, NothingCopiedYet, CopyIsPrefix, EntityWellFormed, Increasing

\* A step of the thread that holds the semaphore neither: no reader copies.
LEMMA WriterFrame ==
    ASSUME ReaderInv, OneInside, WriterInside, UNCHANGED <<rpc, entity>>
    PROVE  ReaderInv'
  <1>1. \A r \in Readers : rpc[r] # "copy"
    BY DEF OneInside, ReaderInside
  <1>2. QED
    BY <1>1 DEF ReaderInv, NothingCopiedYet, CopyIsPrefix, EntityWellFormed, Increasing

\* A reader's step leaves the deque and the other readers alone.
LEMMA OtherReaders ==
    ASSUME TypeOK, ReaderInv, NEW r \in Readers, Reader(r)
    PROVE  /\ UNCHANGED statistics
           /\ \A q \in Readers : q # r => rpc'[q] = rpc[q] /\ entity'[q] = entity[q]
  BY DEF TypeOK, Reader, InterrogateNotReady, InterrogateReady, AcquireForCopy,
         CopyRow, ReleaseAndReturn

LEMMA ReaderStep ==
    TypeOK /\ OneInside /\ HistoryInv /\ ReaderInv /\ [Next]_vars => ReaderInv'
  <1> SUFFICES ASSUME TypeOK, OneInside, HistoryInv, ReaderInv, [Next]_vars
               PROVE  ReaderInv'
    OBVIOUS
  <1>1. CASE BeginPass \/ EndThread \/ CollectorReturns \/ CollectorGivesNothing
             \/ CollectorFatal \/ Incomplete \/ Complete \/ AcquireForRow
             \/ SetReady \/ Terminate \/ UNCHANGED vars
    <2>1. UNCHANGED <<statistics, rpc, entity>>
      BY <1>1 DEF BeginPass, EndThread, CollectorReturns, CollectorGivesNothing,
           CollectorFatal, Incomplete, Complete, AcquireForRow, SetReady,
           Terminate, vars, readerVars
    <2>2. QED BY <2>1, ReaderFrame
  <1>2. CASE AppendRow \/ TrimAndRelease
    <2>1. WriterInside /\ UNCHANGED <<rpc, entity>>
      BY <1>2 DEF AppendRow, TrimAndRelease, WriterInside, readerVars
    <2>2. QED BY <2>1, WriterFrame
  <1>3. ASSUME NEW r \in Readers, Reader(r) PROVE ReaderInv'
    <2>1. ASSUME NEW q \in Readers, q # r
          PROVE  /\ (rpc[q] = "copy" =>
                       /\ Len(entity[q]) <= Len(statistics)
                       /\ \A i \in 1..Len(entity[q]) : entity[q][i] = statistics[i])'
                 /\ (rpc[q] = "idle" /\ entity[q] # NoEntity =>
                       /\ Len(entity[q]) \in 1..HistoryLength
                       /\ Increasing(entity[q]))'
                 /\ (rpc[q] = "acquire" => entity[q] = <<>>)'
      <3>1. UNCHANGED <<statistics, rpc[q], entity[q]>>
        BY <1>3, <2>1, OtherReaders
      <3>2. QED
        BY <3>1 DEF ReaderInv, NothingCopiedYet, CopyIsPrefix, EntityWellFormed, Increasing
    <2>2. (rpc[r] = "copy" =>
             /\ Len(entity[r]) <= Len(statistics)
             /\ \A i \in 1..Len(entity[r]) : entity[r][i] = statistics[i])'
      <3>1. CASE InterrogateNotReady(r) \/ InterrogateReady(r) \/ ReleaseAndReturn(r)
        BY <3>1 DEF TypeOK, InterrogateNotReady, InterrogateReady, ReleaseAndReturn
      <3>2. CASE AcquireForCopy(r)
        BY <3>2 DEF TypeOK, AcquireForCopy, ReaderInv, NothingCopiedYet
      <3>3. CASE CopyRow(r)
        <4> DEFINE e == entity[r]
                   row == statistics[Len(e) + 1]
        <4>1. /\ e \in Seq(Row) /\ statistics \in Seq(Row) /\ rpc[r] = "copy"
              /\ Len(e) < Len(statistics) /\ UNCHANGED <<statistics, rpc>>
              /\ entity'[r] = Append(e, row)
          BY <3>3 DEF TypeOK, CopyRow
        <4>2. row \in Row /\ Len(e) \in Nat
          BY <4>1
        <4>3. \A i \in 1..Len(e) : e[i] = statistics[i]
          BY <4>1 DEF ReaderInv, CopyIsPrefix
        <4> HIDE DEF e, row
        <4>4. /\ Len(Append(e, row)) = Len(e) + 1
              /\ \A i \in 1..(Len(e) + 1) :
                    Append(e, row)[i] = IF i = Len(e) + 1 THEN row ELSE e[i]
          BY <4>1, <4>2
        <4>5. Len(Append(e, row)) <= Len(statistics)
          BY <4>1, <4>2, <4>4
        <4>6. \A i \in 1..Len(Append(e, row)) : Append(e, row)[i] = statistics[i]
          BY <4>1, <4>2, <4>3, <4>4 DEF row
        <4>7. QED BY <4>1, <4>5, <4>6
      <3>4. QED BY <1>3, <3>1, <3>2, <3>3 DEF Reader
    <2>3. (rpc[r] = "idle" /\ entity[r] # NoEntity =>
             /\ Len(entity[r]) \in 1..HistoryLength
             /\ Increasing(entity[r]))'
      <3>1. CASE InterrogateNotReady(r)
        BY <3>1 DEF TypeOK, InterrogateNotReady
      <3>2. CASE InterrogateReady(r) \/ AcquireForCopy(r) \/ CopyRow(r)
        BY <3>2 DEF TypeOK, InterrogateReady, AcquireForCopy, CopyRow
      <3>3. CASE ReleaseAndReturn(r)
        <4>1. /\ rpc[r] = "copy" /\ Len(entity[r]) >= Len(statistics)
              /\ UNCHANGED <<entity, statistics>>
              /\ entity[r] \in Seq(Row) /\ statistics \in Seq(Row)
          BY <3>3 DEF ReleaseAndReturn, TypeOK
        <4>2. /\ Len(entity[r]) = Len(statistics)
              /\ \A i \in 1..Len(entity[r]) : entity[r][i] = statistics[i]
          BY <4>1 DEF ReaderInv, CopyIsPrefix
        <4>3. Len(statistics) \in 1..HistoryLength
          <5>1. pc # "trim"
            BY <4>1 DEF OneInside, ReaderInside, WriterInside
          <5>2. QED
            BY <4>1, <5>1, HistoryAssumption DEF TypeOK, HistoryInv, HasRow
        <4>4. Increasing(entity[r])
          BY <4>2 DEF HistoryInv, RowsOfPasses, Increasing
        <4>5. QED BY <4>1, <4>2, <4>3, <4>4 DEF Increasing
      <3>4. QED BY <1>3, <3>1, <3>2, <3>3 DEF Reader
    <2>4. (rpc[r] = "acquire" => entity[r] = <<>>)'
      BY <1>3 DEF Reader, TypeOK, InterrogateNotReady, InterrogateReady,
         AcquireForCopy, CopyRow, ReleaseAndReturn, ReaderInv, NothingCopiedYet
    <2>5. QED
      BY <2>1, <2>2, <2>3, <2>4
      DEF ReaderInv, NothingCopiedYet, CopyIsPrefix, EntityWellFormed
  <1>4. QED
    BY <1>1, <1>2, <1>3 DEF Next, CollectorThread


\* All that is known of a reachable state.
IInv == TypeOK /\ OneInside /\ HistoryInv /\ ReaderInv

LEMMA InductiveInvariant == Spec => []IInv
  <1>1. Init => HistoryInv /\ ReaderInv
    <2> SUFFICES ASSUME Init PROVE HistoryInv /\ ReaderInv
      OBVIOUS
    <2>1. Len(statistics) = 0 /\ statistics = <<>>
      BY DEF Init
    <2>2. HistoryInv
      BY <2>1 DEF Init, HistoryInv, RowsOfPasses, HasRow, LastRow, Increasing, InPass
    <2>3. ReaderInv
      BY DEF Init, ReaderInv, NothingCopiedYet, CopyIsPrefix, EntityWellFormed
    <2>4. QED BY <2>2, <2>3
  <1>2. TypeOK /\ OneInside /\ HistoryInv /\ ReaderInv /\ [Next]_vars
          => HistoryInv' /\ ReaderInv'
    BY HistoryStep, ReaderStep
  <1>3. QED
    BY <1>1, <1>2, TypeCorrect, MutualExclusion, PTL DEF Spec, IInv

\* Every Entity that interrogate() returns has between one row and
\* sample-history-length rows, in the order they were collected, although
\* readiness is tested outside the semaphore.
THEOREM EntitiesAreWellFormed == Spec => []EntityWellFormed
  <1>1. IInv => EntityWellFormed
    BY DEF IInv, ReaderInv
  <1>2. QED BY <1>1, InductiveInvariant, PTL

\* A reader never sees the deque change while it copies it.
THEOREM CopiesArePrefixes == Spec => []CopyIsPrefix
  <1>1. IInv => CopyIsPrefix
    BY DEF IInv, ReaderInv
  <1>2. QED BY <1>1, InductiveInvariant, PTL

\* A ready monitor has the sample of the last finished pass.
THEOREM ReadinessIsCurrent == Spec => []ReadyMeansCurrent
  <1>1. IInv => ReadyMeansCurrent
    <2> SUFFICES ASSUME IInv, ready = "True"
                 PROVE  /\ statistics # <<>>
                        /\ pc \in {"idle", "ended"} => statistics[Len(statistics)].n = pass
                        /\ pc = "collecting" => statistics[Len(statistics)].n = pass - 1
      BY DEF ReadyMeansCurrent
    <2>1. Len(statistics) >= 1
      BY DEF IInv, HistoryInv, HasRow
    <2>2. QED
      BY <2>1 DEF IInv, HistoryInv, LastRow, InPass
  <1>2. QED BY <1>1, InductiveInvariant, PTL

-----------------------------------------------------------------------------
LEMMA FatalStep == FatalInv /\ [Next]_vars => FatalInv'
  BY DEF FatalInv, Next, CollectorThread, vars, BeginPass, EndThread,
     CollectorReturns, CollectorGivesNothing, CollectorFatal, Incomplete,
     Complete, AcquireForRow, AppendRow, TrimAndRelease, SetReady, Terminate,
     Reader, InterrogateNotReady, InterrogateReady, AcquireForCopy, CopyRow,
     ReleaseAndReturn

\* A monitor whose collector reported a fatal error is never offered to the
\* policy again.
THEOREM FatalIsFinal == Spec => []FatalNeverReady
  <1>1. Init => FatalInv
    BY DEF Init, FatalInv
  <1>2. FatalInv => FatalNeverReady
    BY DEF FatalInv, FatalNeverReady
  <1>3. QED BY <1>1, <1>2, FatalStep, PTL DEF Spec

-----------------------------------------------------------------------------
(* The merge of the collectors' dictionaries. *)
NotYetTried == \A c \in Collectors : c >= turn => reported[c] = {}
MergeInv == FirstCollectorWins /\ NotYetTried

\* What FirstCollectorWins says of one key.
WinsFor(k) ==
    IF Providers(k) = {} THEN k \in DOMAIN data => data[k] = 0
    ELSE /\ k \in DOMAIN data
         /\ data[k] \in Providers(k)
         /\ \A c \in Providers(k) : data[k] <= c

LEMMA MergeStep == TypeOK /\ MergeInv /\ [Next]_vars => MergeInv'
  <1> SUFFICES ASSUME TypeOK, MergeInv, [Next]_vars PROVE MergeInv'
    OBVIOUS
  <1>0. /\ reported \in [Collectors -> SUBSET valid_fields]
        /\ turn \in Nat /\ NumCollectors \in Nat
        /\ data \in [DOMAIN data -> 0..NumCollectors]
    BY DataType, CollectorAssumption DEF TypeOK
  <1>1. CASE UNCHANGED <<data, reported, turn>>
    BY <1>1 DEF MergeInv, FirstCollectorWins, NotYetTried, Providers
  <1>2. CASE BeginPass
    BY <1>2 DEF BeginPass, MergeInv, FirstCollectorWins, NotYetTried, Providers, NoData
  <1>3. CASE CollectorGivesNothing
    BY <1>0, <1>3 DEF CollectorGivesNothing, MergeInv, FirstCollectorWins,
       NotYetTried, Providers, Collectors
  <1>4. CASE Complete
    <2>1. ASSUME NEW k \in valid_fields PROVE WinsFor(k)'
      BY <1>4, <2>1 DEF Complete, MergeInv, FirstCollectorWins, Providers, WinsFor
    <2>2. UNCHANGED <<reported, turn>>
      BY <1>4 DEF Complete
    <2>3. QED
      BY <2>1, <2>2 DEF MergeInv, FirstCollectorWins, NotYetTried, WinsFor
  <1>5. CASE CollectorReturns
    <2>1. PICK keys \in SUBSET (getFields[turn] \cup getOptionalFields[turn]) :
            \E vals \in SUBSET keys :
               /\ data' = Merged(turn, keys, vals)
               /\ reported' = [reported EXCEPT ![turn] = vals]
      BY <1>5 DEF CollectorReturns
    <2>2. PICK vals \in SUBSET keys :
               /\ data' = Merged(turn, keys, vals)
               /\ reported' = [reported EXCEPT ![turn] = vals]
      BY <2>1
    <2>3. turn \in Collectors /\ turn' = turn + 1
      BY <1>5 DEF CollectorReturns
    <2>4. NotYetTried'
      BY <1>0, <2>2, <2>3 DEF MergeInv, NotYetTried, Collectors
    <2>5. ASSUME NEW k \in valid_fields PROVE WinsFor(k)'
      <3>1. WinsFor(k)
        BY DEF MergeInv, FirstCollectorWins, WinsFor
      <3>2. Providers(k)' = IF k \in vals THEN Providers(k) \cup {turn} ELSE Providers(k)
        BY <1>0, <2>2, <2>3 DEF Providers, MergeInv, NotYetTried, Collectors
      <3>3. /\ k \in DOMAIN data' <=> k \in DOMAIN data \/ k \in keys
            /\ k \in DOMAIN data /\ (data[k] # 0 \/ k \notin keys) => data'[k] = data[k]
            /\ k \in keys /\ ~(k \in DOMAIN data /\ data[k] # 0)
                  => data'[k] = IF k \in vals THEN turn ELSE 0
        BY <2>2 DEF Merged
      <3>4. \A c \in Providers(k) : c \in Nat \ {0} /\ c < turn
        BY <1>0 DEF Providers, MergeInv, NotYetTried, Collectors
      <3>5. CASE k \in vals
        <4>1. CASE Providers(k) = {}
          BY <1>0, <2>3, <3>1, <3>2, <3>3, <3>5, <4>1 DEF WinsFor, Collectors
        <4>2. CASE Providers(k) # {}
          BY <1>0, <2>3, <3>1, <3>2, <3>3, <3>4, <3>5, <4>2 DEF WinsFor, Collectors
        <4>3. QED BY <4>1, <4>2
      <3>6. CASE k \notin vals
        BY <1>0, <3>1, <3>2, <3>3, <3>4, <3>6 DEF WinsFor
      <3>7. QED BY <3>5, <3>6
    <2>6. QED
      BY <2>4, <2>5 DEF MergeInv, FirstCollectorWins, WinsFor
  <1>6. CASE EndThread \/ CollectorFatal \/ Incomplete \/ AcquireForRow
             \/ AppendRow \/ TrimAndRelease \/ SetReady \/ Terminate \/ UNCHANGED vars
    BY <1>1, <1>6 DEF EndThread, CollectorFatal, Incomplete, AcquireForRow,
       AppendRow, TrimAndRelease, SetReady, Terminate, vars, collectVars
  <1>7. ASSUME NEW r \in Readers, Reader(r) PROVE MergeInv'
    BY <1>1, <1>7 DEF Reader, InterrogateNotReady, InterrogateReady,
       AcquireForCopy, CopyRow, ReleaseAndReturn, collectVars
  <1>8. QED
    BY <1>2, <1>3, <1>4, <1>5, <1>6, <1>7 DEF Next, CollectorThread

\* collect() gives every key the value of the first collector that has one.
THEOREM PriorityOfCollectors == Spec => []FirstCollectorWins
  <1>1. Init => MergeInv
    BY DEF Init, MergeInv, FirstCollectorWins, NotYetTried, Providers, NoData
  <1>2. MergeInv => FirstCollectorWins
    BY DEF MergeInv
  <1>3. QED BY <1>1, <1>2, MergeStep, TypeCorrect, PTL DEF Spec

-----------------------------------------------------------------------------
(* The refinement: one step of Monitor is one step of the window, or none. *)
LEMMA AppendTrimmed ==
    ASSUME NEW s \in Seq(Row), NEW x \in Row, Len(s) <= HistoryLength
    PROVE  Trimmed(Append(s, x)) = IF Len(s) < HistoryLength THEN Append(s, x)
                                   ELSE Append(Tail(s), x)
  <1>1. Len(Append(s, x)) = Len(s) + 1 /\ Append(s, x) \in Seq(Row) /\ Len(s) \in Nat
    OBVIOUS
  <1>2. CASE Len(s) < HistoryLength
    BY <1>1, <1>2, HistoryAssumption DEF Trimmed
  <1>3. CASE ~(Len(s) < HistoryLength)
    <2>1. Trimmed(Append(s, x)) = Tail(Append(s, x)) /\ Len(s) >= 1
      BY <1>1, <1>3, HistoryAssumption DEF Trimmed
    <2>2. Tail(Append(s, x)) = Append(Tail(s), x)
      BY <2>1
    <2>3. QED BY <1>3, <2>1, <2>2
  <1>4. QED BY <1>2, <1>3

LEMMA WindowStep == IInv /\ IInv' /\ [Next]_vars => [Window!Next]_(Window!vars)
  <1> SUFFICES ASSUME IInv, IInv', [Next]_vars
               PROVE  Window!Next \/ UNCHANGED Window!vars
    OBVIOUS
  <1>0. TypeOK /\ OneInside /\ HistoryInv /\ ReaderInv
    BY DEF IInv
  <1>1. CASE BeginPass \/ EndThread \/ CollectorReturns \/ CollectorGivesNothing
             \/ Complete \/ AcquireForRow \/ Terminate \/ UNCHANGED vars
    BY <1>1 DEF BeginPass, EndThread, CollectorReturns, CollectorGivesNothing,
       Complete, AcquireForRow, Terminate, vars, readerVars, collectVars, Window!vars
  <1>2. CASE CollectorFatal \/ Incomplete
    <2>1. Window!Withdraw
      BY <1>2 DEF CollectorFatal, Incomplete, readerVars, Window!Withdraw
    <2>2. QED BY <2>1 DEF Window!Next
  <1>3. CASE AppendRow
    <2>1. [n |-> pass, data |-> data] \in Row
      BY <1>0, <1>3, DataType DEF TypeOK, AppendRow, Row
    <2>2. /\ statistics \in Seq(Row) /\ Len(statistics) <= HistoryLength
          /\ Trimmed(statistics) = statistics
      BY <1>0, <1>3, HistoryAssumption DEF TypeOK, AppendRow, Trimmed
    <2>3. Window!Publish([n |-> pass, data |-> data])
      BY <1>3, <2>1, <2>2, AppendTrimmed
      DEF AppendRow, readerVars, Window!Publish
    <2>4. QED BY <2>1, <2>3 DEF Window!Next
  <1>4. CASE TrimAndRelease
    <2>1. Trimmed(statistics') = Trimmed(statistics)
      <3>1. statistics' = Trimmed(statistics) /\ statistics \in Seq(Row)
            /\ Len(statistics) <= HistoryLength + 1
        BY <1>0, <1>4 DEF TypeOK, TrimAndRelease
      <3>2. Len(statistics') <= HistoryLength
        BY <3>1, HistoryAssumption DEF Trimmed
      <3>3. QED BY <3>1, <3>2, HistoryAssumption DEF Trimmed
    <2>2. QED
      BY <1>4, <2>1 DEF TrimAndRelease, readerVars, Window!vars
  <1>5. CASE SetReady
    <2>1. /\ statistics \in Seq(Row) /\ Len(statistics) >= 1
      BY <1>0, <1>5 DEF TypeOK, HistoryInv, HasRow, SetReady
    <2>2. Trimmed(statistics) # <<>>
      <3>1. Len(Trimmed(statistics)) >= 1
        BY <1>0, <2>1, TrimmedRows DEF HistoryInv, RowsOfPasses
      <3>2. QED BY <3>1
    <2>3. Window!Offer
      BY <1>5, <2>2 DEF SetReady, readerVars, Window!Offer
    <2>4. QED BY <2>3 DEF Window!Next
  <1>6. ASSUME NEW r \in Readers, Reader(r)
        PROVE  Window!Next \/ UNCHANGED Window!vars
    <2>1. CASE InterrogateNotReady(r)
      <3>1. Window!Refuse(r)
        BY <1>0, <2>1 DEF TypeOK, InterrogateNotReady, Window!Refuse
      <3>2. QED BY <3>1 DEF Window!Next
    <2>2. CASE InterrogateReady(r)
      <3>1. Window!Ask(r)
        BY <1>0, <2>2 DEF TypeOK, InterrogateReady, Window!Ask
      <3>2. QED BY <3>1 DEF Window!Next
    <2>3. CASE AcquireForCopy(r) \/ CopyRow(r)
      BY <1>0, <2>3 DEF TypeOK, AcquireForCopy, CopyRow, Window!vars
    <2>4. CASE ReleaseAndReturn(r)
      <3>1. entity[r] = Trimmed(statistics) /\ entity[r] # <<>>
        <4>1. /\ rpc[r] = "copy" /\ Len(entity[r]) >= Len(statistics)
              /\ entity[r] \in Seq(Row) /\ statistics \in Seq(Row)
          BY <1>0, <2>4 DEF ReleaseAndReturn, TypeOK
        <4>2. /\ Len(entity[r]) = Len(statistics)
              /\ \A i \in 1..Len(entity[r]) : entity[r][i] = statistics[i]
          BY <1>0, <4>1 DEF ReaderInv, CopyIsPrefix
        <4>3. entity[r] = statistics
          BY <4>1, <4>2
        <4>4. pc # "trim"
          BY <1>0, <4>1 DEF OneInside, ReaderInside, WriterInside
        <4>5. Len(statistics) \in 1..HistoryLength
          BY <1>0, <4>1, <4>4, HistoryAssumption DEF TypeOK, HistoryInv, HasRow
        <4>6. QED BY <4>3, <4>5, HistoryAssumption DEF Trimmed
      <3>2. /\ rpc[r] = "copy" /\ rpc' = [rpc EXCEPT ![r] = "idle"]
            /\ UNCHANGED <<statistics, ready, entity>>
            /\ rpc \in [Readers -> {"idle", "acquire", "copy"}]
        BY <1>0, <2>4 DEF ReleaseAndReturn, TypeOK
      <3>3. {q \in Readers : rpc'[q] # "idle"} = {q \in Readers : rpc[q] # "idle"} \ {r}
        BY <3>2
      <3>4. [q \in Readers |-> IF rpc'[q] = "idle" THEN entity'[q] ELSE NoEntity]
              = [[q \in Readers |-> IF rpc[q] = "idle" THEN entity[q] ELSE NoEntity]
                    EXCEPT ![r] = Trimmed(statistics)]
        BY <3>1, <3>2
      <3>5. Window!Reply(r)
        BY <3>1, <3>2, <3>3, <3>4 DEF Window!Reply
      <3>6. QED BY <3>5 DEF Window!Next
    <2>5. QED
      BY <1>6, <2>1, <2>2, <2>3, <2>4 DEF Reader
  <1>7. QED
    BY <1>1, <1>2, <1>3, <1>4, <1>5, <1>6 DEF Next, CollectorThread

\* interrogate() implements the atomic snapshot of a sliding window.
THEOREM ImplementsSampleWindow == Spec => WindowSpec
  <1>1. Init => Window!Init
    <2> SUFFICES ASSUME Init PROVE Window!Init
      OBVIOUS
    <2>1. Trimmed(statistics) = <<>>
      BY HistoryAssumption DEF Init, Trimmed
    <2>2. QED BY <2>1 DEF Init, Window!Init
  <1>2. QED
    BY <1>1, WindowStep, InductiveInvariant, PTL DEF Spec, WindowSpec, Window!Spec

=============================================================================
