-------------------------- MODULE PolicyStoreProof --------------------------
(* Theorems about PolicyStore, for every number of callers, names and      *)
(* texts and every list of policy files.                                   *)
EXTENDS PolicyStore, TLAPS

LEMMA CompileType == ASSUME NEW s \in Strings PROVE Compile(s) \in Programs
  <1> DEFINE names == {n \in Names : s[n] \in Codes}
  <1>1. CASE names = {}
    <2>1. /\ Compile(s) = [n \in {0} |-> Zero]
          /\ {0} \in SUBSET (Names \cup {0})
      BY <1>1 DEF Compile
    <2>2. QED BY <2>1 DEF Programs
  <1>2. CASE names # {}
    <2>1. /\ Compile(s) = [n \in names |-> s[n]]
          /\ names \in SUBSET (Names \cup {0})
      BY <1>2 DEF Compile
    <2>2. [n \in names |-> s[n]] \in [names -> Codes \cup {Zero}]
      OBVIOUS
    <2>3. QED BY <2>1, <2>2 DEF Programs
  <1>3. QED BY <1>1, <1>2

LEMMA NoCodeType == NoCode \in Programs
  <1>1. {} \in SUBSET (Names \cup {0}) /\ NoCode \in [{} -> Codes \cup {Zero}]
    BY DEF NoCode
  <1>2. QED BY <1>1 DEF Programs

LEMMA EmptyStrings == Empty \in Strings /\ Parses(Empty)
  BY StoreAssumption DEF Empty, Strings, Parses, Raises, ScanRaises, NoTokens, Zeroed, Texts

\* A program restricted to some of its expressions, and one more, is one.
LEMMA ExtendType ==
    ASSUME NEW p \in Programs, NEW ns \in SUBSET DOMAIN p
    PROVE  [m \in ns |-> p[m]] \in Programs
  <1>1. PICK d \in SUBSET (Names \cup {0}) : p \in [d -> Codes \cup {Zero}]
    BY DEF Programs
  <1>2. ns \in SUBSET (Names \cup {0})
        /\ [m \in ns |-> p[m]] \in [ns -> Codes \cup {Zero}]
    BY <1>1
  <1>3. QED BY <1>2 DEF Programs

\* The results are the beginning of the code that is being evaluated.
EngineInv ==
    epc = "eval" =>
        /\ exprs = code
        /\ DOMAIN results \subseteq DOMAIN exprs
        /\ results = [n \in DOMAIN results |-> exprs[n]]

TInv == TypeOK /\ EngineInv

LEMMA TypeInit == Init => TInv
  <1> SUFFICES ASSUME Init PROVE TInv
    OBVIOUS
  <1> USE StoreAssumption
  <1>1. policy_strings \in Strings /\ answer \in [Callers -> Strings]
    BY EmptyStrings DEF Init
  <1>2. /\ code \in Programs /\ exprs \in Programs
        /\ results \in Programs /\ decision \in Programs
    BY NoCodeType DEF Init
  <1>3. /\ arg \in [Callers -> Names \X (Texts \cup {NoText})]
        /\ oldStr \in [Callers -> Texts \cup {NoText}]
        /\ toLoad \in [Callers -> Seq(Names \X Texts)]
        /\ alone \subseteq Callers
        /\ pc \in [Callers -> {"idle", "load", "set", "compile"}]
    BY DEF Init
  <1>4. \A c \in Callers : policy_sem # c /\ pc[c] # "compile"
    BY DEF Init
  <1>5. /\ policy_sem = "free" /\ up = FALSE /\ epc = "sleep"
        /\ calls = 0 /\ rounds = 0 /\ faults = 0
    BY DEF Init
  <1>6. /\ \A c \in Callers : policy_sem = c <=> pc[c] = "compile"
        /\ policy_sem = "engine" <=> epc = "eval"
    BY <1>4, <1>5
  <1>7. /\ policy_sem \in Callers \cup {"engine", "free"} /\ up \in BOOLEAN
        /\ epc \in {"sleep", "lock", "eval", "act"}
    BY <1>5
  <1>10. calls \in 0..MaxCalls
    BY <1>5
  <1>11. rounds \in 0..MaxRounds
    BY <1>5
  <1>12. faults \in 0..MaxFaults
    BY <1>5
  <1>8. TypeOK
    BY <1>1, <1>2, <1>3, <1>6, <1>7, <1>10, <1>11, <1>12 DEF TypeOK
  <1>9. QED BY <1>5, <1>8 DEF TInv, EngineInv

LEMMA EngineStep == ASSUME TInv, Engine PROVE TInv'
  <1> USE StoreAssumption
  <1>1. CASE BeginRound
    BY <1>1 DEF TInv, TypeOK, EngineInv, BeginRound, storeVars, callerVars
  <1>2. CASE BeginEvaluation
    <2>1. DOMAIN NoCode = {} /\ NoCode = [n \in DOMAIN NoCode |-> code[n]]
      BY DEF NoCode
    <2>2. EngineInv'
      BY <1>2, <2>1 DEF BeginEvaluation, EngineInv
    <2>3. TypeOK'
      BY <1>2, NoCodeType DEF TInv, TypeOK, BeginEvaluation, callerVars
    <2>4. QED BY <2>2, <2>3 DEF TInv
  <1>3. CASE EvaluateExpression
    <2>1. PICK n \in Left : results' = [m \in DOMAIN results \cup {n} |-> exprs[m]]
      BY <1>3 DEF EvaluateExpression
    <2>2. DOMAIN results \cup {n} \in SUBSET DOMAIN exprs
      BY <1>3, <2>1 DEF TInv, EngineInv, EvaluateExpression, Left
    <2>3. results' \in Programs
      BY <2>1, <2>2, ExtendType DEF TInv, TypeOK
    <2>4. TypeOK'
      BY <1>3, <2>3 DEF TInv, TypeOK, EvaluateExpression, storeVars, callerVars
    <2>5. /\ epc = "eval" /\ exprs = code
          /\ UNCHANGED <<exprs, code>> /\ DOMAIN results' = DOMAIN results \cup {n}
      BY <1>3, <2>1 DEF TInv, EngineInv, EvaluateExpression, storeVars
    <2>6. EngineInv'
      BY <2>1, <2>2, <2>5 DEF EngineInv
    <2>7. QED BY <2>4, <2>6 DEF TInv
  <1>4. CASE EvaluationFails
    BY <1>4 DEF TInv, TypeOK, EngineInv, EvaluationFails, callerVars
  <1>5. CASE EndEvaluation
    BY <1>5 DEF TInv, TypeOK, EngineInv, EndEvaluation, callerVars
  <1>6. CASE ProcessControllers
    BY <1>6 DEF TInv, TypeOK, EngineInv, ProcessControllers, storeVars, callerVars
  <1>7. QED
    BY <1>1, <1>2, <1>3, <1>4, <1>5, <1>6 DEF Engine

LEMMA ReturnType ==
    ASSUME TypeOK, NEW c \in Callers, Return(c), pc[c] = "compile"
    PROVE  /\ toLoad' \in [Callers -> Seq(Names \X Texts)]
           /\ pc' \in [Callers -> {"idle", "load", "set", "compile"}]
           /\ pc' # pc /\ pc' = [pc EXCEPT ![c] = pc'[c]] /\ pc'[c] # "compile"
           /\ policy_sem' = "free"
           /\ UNCHANGED <<up, arg, oldStr, answer, alone, calls, faults>>
           /\ UNCHANGED <<epc, exprs, results, decision, rounds>>
  <1>1. /\ toLoad \in [Callers -> Seq(Names \X Texts)]
        /\ pc \in [Callers -> {"idle", "load", "set", "compile"}]
    BY DEF TypeOK
  <1>2. toLoad[c] # <<>> => Tail(toLoad[c]) \in Seq(Names \X Texts)
    BY <1>1
  <1>3. \/ UNCHANGED toLoad
        \/ /\ toLoad[c] # <<>>
           /\ toLoad' = [toLoad EXCEPT ![c] = Tail(toLoad[c])]
    BY DEF Return
  <1>4. toLoad' \in [Callers -> Seq(Names \X Texts)]
    BY ONLY <1>1, <1>2, <1>3
  <1>5. pc' = [pc EXCEPT ![c] = "idle"] \/ pc' = [pc EXCEPT ![c] = "load"]
    BY DEF Return
  <1>6. /\ pc' \in [Callers -> {"idle", "load", "set", "compile"}]
        /\ pc' # pc /\ pc' = [pc EXCEPT ![c] = pc'[c]] /\ pc'[c] # "compile"
    BY ONLY <1>1, <1>5, pc[c] = "compile"
  <1>7. QED
    BY <1>4, <1>6 DEF Return, engineVars

LEMMA CallerStep == ASSUME TInv, NEW c \in Callers, Caller(c) PROVE TInv'
  <1> USE StoreAssumption
  <1>0. TypeOK /\ EngineInv
    BY DEF TInv
  <1>1. ASSUME NEW n \in Names, NEW t \in Texts \cup {NoText}, SetNamed(c, n, t)
        PROVE  TInv'
    BY <1>0, <1>1 DEF TInv, TypeOK, EngineInv, SetNamed, Call, storeVars, engineVars
  <1>2. ASSUME NEW t \in Texts \cup {NoText}, ClearAndSet(c, t)
        PROVE  TInv'
    <2>0. /\ arg' \in [Callers -> Names \X (Texts \cup {NoText})]
          /\ pc' = [pc EXCEPT ![c] = "set"] /\ policy_sem = "free"
          /\ alone' \subseteq Callers /\ calls' \in 0..MaxCalls
          /\ policy_strings' \in Strings /\ code' \in Programs
          /\ UNCHANGED <<policy_sem, up, oldStr, toLoad, answer, faults>>
          /\ UNCHANGED <<epc, exprs, results, decision, rounds>>
      BY <1>0, <1>2, EmptyStrings, NoCodeType
      DEF TypeOK, ClearAndSet, Call, Clear, Disturb, engineVars
    <2>1. TypeOK'
      BY <1>0, <2>0 DEF TypeOK
    <2>2. EngineInv'
      BY <1>0, <1>2 DEF TypeOK, EngineInv, ClearAndSet, Clear, engineVars
    <2>3. QED BY <2>1, <2>2 DEF TInv
  <1>3. CASE ClearAndLoad(c)
    <2>0. /\ toLoad' \in [Callers -> Seq(Names \X Texts)]
          /\ pc' = [pc EXCEPT ![c] = "load"] /\ policy_sem = "free"
          /\ alone' \subseteq Callers /\ calls' \in 0..MaxCalls
          /\ policy_strings' \in Strings /\ code' \in Programs
          /\ UNCHANGED <<policy_sem, up, arg, oldStr, answer, faults>>
          /\ UNCHANGED <<epc, exprs, results, decision, rounds>>
      BY <1>0, <1>3, EmptyStrings, NoCodeType
      DEF TypeOK, ClearAndLoad, Call, Clear, Disturb, engineVars
    <2>1. TypeOK'
      BY <1>0, <2>0 DEF TypeOK
    <2>2. EngineInv'
      BY <1>0, <1>3 DEF TypeOK, EngineInv, ClearAndLoad, Clear, engineVars
    <2>3. QED BY <2>1, <2>2 DEF TInv
  <1>4. CASE LoadNext(c)
    <2>1. toLoad[c] \in Seq(Names \X Texts) /\ Head(toLoad[c]) \in Names \X Texts
      BY <1>0, <1>4 DEF TypeOK, LoadNext
    <2>2. QED
      BY <1>0, <1>4, <2>1 DEF TInv, TypeOK, EngineInv, LoadNext, storeVars, engineVars
  <1>5. CASE LoadFails(c) \/ ListFails(c)
    <2>1. /\ toLoad \in [Callers -> Seq(Names \X Texts)] /\ <<>> \in Seq(Names \X Texts)
          /\ toLoad[c] # <<>> => Tail(toLoad[c]) \in Seq(Names \X Texts)
      BY <1>0 DEF TypeOK
    <2>2. /\ toLoad[c] # <<>>
          /\ \/ toLoad' = [toLoad EXCEPT ![c] = Tail(toLoad[c])]
             \/ toLoad' = [toLoad EXCEPT ![c] = <<>>]
      BY <1>5 DEF LoadFails, ListFails
    <2>3. toLoad' \in [Callers -> Seq(Names \X Texts)]
      BY ONLY <2>1, <2>2
    <2>4. /\ alone' \subseteq Callers /\ faults' \in 0..MaxFaults
          /\ UNCHANGED <<policy_strings, code, policy_sem, up, pc, arg, oldStr, answer>>
          /\ UNCHANGED <<calls, epc, exprs, results, decision, rounds>>
      BY <1>0, <1>5 DEF ListFails, LoadFails, TypeOK, storeVars, engineVars
    <2>5. QED
      BY <1>0, <2>3, <2>4 DEF TInv, TypeOK, EngineInv
  <1>6. CASE LoadDone(c)
    BY <1>0, <1>6 DEF TInv, TypeOK, EngineInv, LoadDone, storeVars, engineVars
  <1>7. CASE StoreText(c)
    <2>1. arg[c][1] \in Names /\ arg[c][2] \in Texts \cup {NoText}
      BY <1>0 DEF TypeOK
    <2>2. policy_strings' \in Strings /\ oldStr' \in [Callers -> Texts \cup {NoText}]
      BY <1>0, <1>7, <2>1 DEF TypeOK, StoreText, Strings
    <2>3. /\ pc' = [pc EXCEPT ![c] = "compile"] /\ policy_sem = "free"
          /\ policy_sem' = c /\ alone' \subseteq Callers
          /\ UNCHANGED <<code, up, arg, toLoad, answer, calls, faults>>
          /\ UNCHANGED <<epc, exprs, results, decision, rounds>>
      BY <1>0, <1>7 DEF TypeOK, StoreText, Disturb, engineVars
    <2>4. /\ \A d \in Callers : policy_sem' = d <=> pc'[d] = "compile"
          /\ policy_sem' # "engine" /\ epc # "eval"
      BY <1>0, <2>3 DEF TypeOK
    <2>7. /\ pc' \in [Callers -> {"idle", "load", "set", "compile"}]
          /\ policy_sem' \in Callers \cup {"engine", "free"}
      BY <1>0, <2>3 DEF TypeOK
    <2>8. epc \in {"sleep", "lock", "eval", "act"} /\ epc' # "eval"
      BY <1>0, <2>3, <2>4 DEF TypeOK
    <2>5. TypeOK'
      BY ONLY <1>0, <2>2, <2>3, <2>4, <2>7, <2>8, SMTT(30) DEF TypeOK
    <2>6. QED BY <2>3, <2>4, <2>5 DEF TInv, EngineInv
  <1>8. ASSUME CompileOk(c) \/ CompileFails(c) PROVE TInv'
    <2>1. pc[c] = "compile" /\ Return(c) /\ policy_sem = c
      BY <1>0, <1>8 DEF CompileOk, CompileFails, Rejected, TypeOK
    <2>2. policy_strings' \in Strings
      <3>1. arg[c][1] \in Names /\ oldStr[c] \in Texts \cup {NoText}
        BY <1>0 DEF TypeOK
      <3>2. QED
        BY <1>0, <1>8, <3>1 DEF TypeOK, CompileOk, CompileFails, Strings
    <2>3. code' \in Programs
      BY <1>0, <1>8, CompileType DEF TypeOK, CompileOk, CompileFails
    <2>4. \A d \in Callers : policy_sem' = d <=> pc'[d] = "compile"
      BY <1>0, <2>1, ReturnType DEF TypeOK
    <2>5. epc # "eval" /\ policy_sem' = "free" /\ epc' = epc
      BY <1>0, <2>1, ReturnType DEF TypeOK
    <2>6. TypeOK'
      BY <1>0, <2>1, <2>2, <2>3, <2>4, <2>5, ReturnType DEF TypeOK
    <2>7. QED BY <2>5, <2>6 DEF TInv, EngineInv
  <1>9. CASE CompileRaises(c)
    <2>1. /\ pc[c] = "compile" /\ policy_sem = c /\ policy_sem' = "free"
          /\ pc' = [pc EXCEPT ![c] = "idle"] /\ <<>> \in Seq(Names \X Texts)
          /\ toLoad' = [toLoad EXCEPT ![c] = <<>>]
          /\ UNCHANGED <<policy_strings, code, up, arg, oldStr, answer, alone, calls>>
          /\ UNCHANGED <<epc, exprs, results, decision, rounds, faults>>
      BY <1>0, <1>9 DEF TypeOK, CompileRaises, engineVars
    <2>2. toLoad' \in [Callers -> Seq(Names \X Texts)]
      BY <1>0, <2>1 DEF TypeOK
    <2>3. \A d \in Callers : policy_sem' = d <=> pc'[d] = "compile"
      BY <1>0, <2>1 DEF TypeOK
    <2>4. epc # "eval"
      BY <1>0, <2>1 DEF TypeOK
    <2>5. TypeOK'
      BY <1>0, <2>1, <2>2, <2>3, <2>4 DEF TypeOK
    <2>6. QED BY <2>1, <2>4, <2>5 DEF TInv, EngineInv
  <1>10. CASE GetPolicy(c)
    BY <1>0, <1>10 DEF TInv, TypeOK, EngineInv, GetPolicy, Call, storeVars, engineVars
  <1>11. QED
    BY <1>1, <1>2, <1>3, <1>4, <1>5, <1>6, <1>7, <1>8, <1>9, <1>10 DEF Caller

LEMMA TypeStep == TInv /\ [Next]_vars => TInv'
  <1>1. ASSUME TInv, UNCHANGED vars PROVE TInv'
    BY <1>1 DEF vars, storeVars, callerVars, engineVars, TInv, TypeOK, EngineInv
  <1>2. QED
    BY <1>1, EngineStep, CallerStep DEF Next

\* Types of all variables, and the places where a thread may hold the
\* semaphore.
THEOREM TypeCorrect == Spec => []TypeOK
  BY TypeInit, TypeStep, PTL DEF Spec, TInv

-----------------------------------------------------------------------------
(* The code belongs to the strings. *)

\* While a caller is inside set_policy its text is among the strings; all
\* that was settled before parses, so that its rollback finds what it needs.
StoreInv ==
    /\ CodeBelongsToStrings
    /\ \A c \in Callers : pc[c] = "compile" =>
          policy_strings[arg[c][1]] = arg[c][2]

\* Steps that leave the settled strings and the code as they are.
SettledStep == Settled' = Settled /\ code' = code

LEMMA SettledStepKeeps ==
    ASSUME CodeBelongsToStrings, SettledStep
    PROVE  CodeBelongsToStrings'
  BY DEF CodeBelongsToStrings, SettledStep

\* Steps that do not touch the store.
LEMMA QuietStep ==
    ASSUME TInv, StoreInv, UNCHANGED <<policy_strings, code, arg, oldStr>>,
           \/ policy_sem' = policy_sem
           \/ policy_sem \notin Callers /\ policy_sem' \notin Callers,
           \A c \in Callers : pc'[c] = "compile" => pc[c] = "compile"
    PROVE  StoreInv' /\ SettledStep
  <1>1. Settled' = Settled
    BY DEF Settled
  <1>2. SettledStep
    BY <1>1 DEF SettledStep
  <1>3. CodeBelongsToStrings'
    BY <1>2, SettledStepKeeps DEF StoreInv
  <1>4. QED
    BY <1>2, <1>3 DEF StoreInv

\* A caller that is not inside set_policy gets another argument.
LEMMA OtherArgStep ==
    ASSUME TInv, StoreInv, NEW c \in Callers, NEW a,
           pc[c] # "compile", pc' = [pc EXCEPT ![c] = "set"],
           arg' = [arg EXCEPT ![c] = a],
           UNCHANGED <<policy_strings, code, oldStr, policy_sem>>
    PROVE  StoreInv' /\ SettledStep
  <1>1. /\ pc \in [Callers -> {"idle", "load", "set", "compile"}]
        /\ \A d \in Callers : policy_sem = d <=> pc[d] = "compile"
        /\ arg \in [Callers -> Names \X (Texts \cup {NoText})]
    BY DEF TInv, TypeOK
  <1>2. policy_sem \in Callers => arg'[policy_sem] = arg[policy_sem]
    BY <1>1
  <1>3. Settled' = Settled
    BY <1>2 DEF Settled
  <1>4. \A d \in Callers : pc'[d] = "compile" => pc[d] = "compile" /\ arg'[d] = arg[d]
    BY <1>1
  <1>5. SettledStep
    BY <1>3 DEF SettledStep
  <1>6. QED
    BY <1>4, <1>5, SettledStepKeeps DEF StoreInv

\* set_policy writes its text: nothing changes for the others.
LEMMA StoreTextStep ==
    ASSUME TInv, StoreInv, NEW c \in Callers, StoreText(c)
    PROVE  StoreInv' /\ SettledStep
  <1> USE StoreAssumption
  <1>1. /\ arg[c][1] \in Names /\ policy_strings \in Strings
        /\ pc \in [Callers -> {"idle", "load", "set", "compile"}]
        /\ oldStr \in [Callers -> Texts \cup {NoText}]
        /\ \A d \in Callers : policy_sem = d <=> pc[d] = "compile"
    BY DEF TInv, TypeOK
  <1>2. /\ policy_sem = "free" /\ policy_sem' = c /\ UNCHANGED <<code, arg>>
        /\ pc' = [pc EXCEPT ![c] = "compile"]
        /\ oldStr' = [oldStr EXCEPT ![c] = policy_strings[arg[c][1]]]
        /\ policy_strings' = [policy_strings EXCEPT ![arg[c][1]] = arg[c][2]]
    BY DEF StoreText
  <1>3. Settled = policy_strings
    BY <1>2 DEF Settled
  <1>4. Settled' = [policy_strings' EXCEPT ![arg[c][1]] = policy_strings[arg[c][1]]]
    BY <1>1, <1>2 DEF Settled
  <1>5. [policy_strings' EXCEPT ![arg[c][1]] = policy_strings[arg[c][1]]]
           = policy_strings
    BY <1>1, <1>2 DEF Strings
  <1>6. SettledStep
    BY <1>2, <1>3, <1>4, <1>5 DEF SettledStep
  <1>7. \A d \in Callers : pc'[d] = "compile" => d = c
    BY <1>1, <1>2
  <1>8. policy_strings'[arg[c][1]] = arg[c][2]
    BY <1>1, <1>2 DEF Strings
  <1>9. QED
    BY <1>2, <1>6, <1>7, <1>8, SettledStepKeeps DEF StoreInv

\* A text that is rejected: the strings are again the settled ones.
LEMMA CompileFailsStep ==
    ASSUME TInv, StoreInv, NEW c \in Callers, CompileFails(c)
    PROVE  StoreInv' /\ SettledStep
  <1> USE StoreAssumption
  <1>1. /\ pc[c] = "compile" /\ Return(c) /\ policy_sem = c /\ code' = code
        /\ policy_strings' = [policy_strings EXCEPT ![arg[c][1]] = oldStr[c]]
        /\ \A d \in Callers : policy_sem = d <=> pc[d] = "compile"
        /\ pc \in [Callers -> {"idle", "load", "set", "compile"}]
    BY DEF CompileFails, Rejected, TInv, TypeOK
  <1>2. policy_sem' = "free" /\ pc' = [pc EXCEPT ![c] = pc'[c]] /\ pc'[c] # "compile"
    BY <1>1, ReturnType DEF TInv
  <1>3. Settled = policy_strings' /\ Settled' = policy_strings'
    BY <1>1, <1>2 DEF Settled
  <1>4. SettledStep
    BY <1>1, <1>3 DEF SettledStep
  <1>5. \A d \in Callers : pc'[d] # "compile"
    BY <1>1, <1>2
  <1>6. QED
    BY <1>4, <1>5, SettledStepKeeps DEF StoreInv

\* A text that makes get_code raise: it is settled now, and no code belongs to it.
LEMMA CompileRaisesStep ==
    ASSUME TInv, StoreInv, NEW c \in Callers, CompileRaises(c)
    PROVE  /\ StoreInv' /\ Raises(Settled') /\ code' = code
           /\ Settled' = [Settled EXCEPT ![arg[c][1]] = arg[c][2]]
  <1> USE StoreAssumption
  <1>1. /\ policy_sem' = "free" /\ policy_strings' = policy_strings
        /\ code' = code /\ policy_sem = c
        /\ Raises(policy_strings) /\ pc' = [pc EXCEPT ![c] = "idle"]
        /\ pc \in [Callers -> {"idle", "load", "set", "compile"}]
        /\ UNCHANGED arg
    BY DEF CompileRaises, TInv, TypeOK
  <1>2. Settled' = policy_strings
    BY <1>1 DEF Settled
  <1>6. /\ policy_strings \in Strings /\ arg[c][1] \in Names
        /\ policy_strings[arg[c][1]] = arg[c][2]
    BY DEF CompileRaises, TInv, TypeOK, StoreInv
  <1>7. policy_strings = [Settled EXCEPT ![arg[c][1]] = arg[c][2]]
    BY <1>1, <1>6 DEF Settled, Strings
  <1>3. CodeBelongsToStrings'
    BY <1>1, <1>2 DEF CodeBelongsToStrings
  <1>4. \A d \in Callers : pc'[d] = "compile" => pc[d] = "compile"
    BY <1>1
  <1>5. QED
    BY <1>1, <1>2, <1>3, <1>4, <1>7 DEF StoreInv

\* A text that is accepted: the strings with it become the settled ones.
LEMMA CompileOkStep ==
    ASSUME TInv, StoreInv, NEW c \in Callers, CompileOk(c)
    PROVE  /\ StoreInv'
           /\ Settled' = [Settled EXCEPT ![arg[c][1]] = arg[c][2]]
           /\ Parses(Settled') /\ code' = Compile(Settled')
  <1> USE StoreAssumption
  <1>1. /\ pc[c] = "compile" /\ Return(c) /\ policy_sem = c
        /\ Parses(policy_strings) /\ code' = Compile(policy_strings)
        /\ policy_strings' = policy_strings
        /\ \A d \in Callers : policy_sem = d <=> pc[d] = "compile"
        /\ pc \in [Callers -> {"idle", "load", "set", "compile"}]
        /\ policy_strings \in Strings /\ arg[c][1] \in Names
        /\ policy_strings[arg[c][1]] = arg[c][2]
    BY DEF CompileOk, TInv, TypeOK, StoreInv
  <1>2. policy_sem' = "free" /\ pc' = [pc EXCEPT ![c] = pc'[c]] /\ pc'[c] # "compile"
    BY <1>1, ReturnType DEF TInv
  <1>3. Settled' = policy_strings
    BY <1>1, <1>2 DEF Settled
  <1>4. Settled = [policy_strings EXCEPT ![arg[c][1]] = oldStr[c]]
    BY <1>1 DEF Settled
  <1>5. policy_strings = [Settled EXCEPT ![arg[c][1]] = arg[c][2]]
    BY <1>1, <1>4 DEF Strings
  <1>6. \A d \in Callers : pc'[d] # "compile"
    BY <1>1, <1>2
  <1>7. CodeBelongsToStrings'
    BY <1>1, <1>3 DEF CodeBelongsToStrings
  <1>8. QED
    BY <1>1, <1>3, <1>5, <1>6, <1>7 DEF StoreInv

\* clear_policy.
LEMMA ClearStep ==
    ASSUME TInv, StoreInv, NEW c \in Callers,
           ClearAndLoad(c) \/ \E t \in Texts \cup {NoText} : ClearAndSet(c, t)
    PROVE  StoreInv' /\ Settled' = Empty /\ code' = NoCode
  <1> USE StoreAssumption
  <1>1. /\ policy_sem = "free" /\ policy_sem' = "free"
        /\ policy_strings' = Empty /\ code' = NoCode
        /\ \E q \in {"set", "load"} : pc' = [pc EXCEPT ![c] = q]
        /\ \A d \in Callers : policy_sem = d <=> pc[d] = "compile"
        /\ pc \in [Callers -> {"idle", "load", "set", "compile"}]
    BY DEF ClearAndLoad, ClearAndSet, Clear, TInv, TypeOK
  <1>2. Settled' = Empty
    BY <1>1 DEF Settled
  <1>3. \A d \in Callers : pc'[d] # "compile"
    BY <1>1
  <1>4. QED
    BY <1>1, <1>2, <1>3 DEF StoreInv, CodeBelongsToStrings

\* The policy engine only reads the store.
LEMMA EngineReads ==
    ASSUME TInv, StoreInv, Engine
    PROVE  StoreInv' /\ SettledStep /\ answer' = answer
  <1> USE StoreAssumption
  <1>1. UNCHANGED <<policy_strings, code, arg, oldStr, pc, answer>>
    BY DEF Engine, BeginRound, BeginEvaluation, EvaluateExpression,
       EvaluationFails, EndEvaluation, ProcessControllers, storeVars, callerVars
  <1>2. \/ policy_sem' = policy_sem
        \/ policy_sem \notin Callers /\ policy_sem' \notin Callers
    BY DEF Engine, BeginRound, BeginEvaluation, EvaluateExpression,
       EvaluationFails, EndEvaluation, ProcessControllers, storeVars, TInv, TypeOK
  <1>3. QED BY <1>1, <1>2, QuietStep

\* The steps of a caller that neither clear nor replace a policy.
CallerReads(c) ==
    \/ \E n \in Names, t \in Texts \cup {NoText} : SetNamed(c, n, t)
    \/ LoadNext(c) \/ LoadFails(c) \/ ListFails(c) \/ LoadDone(c) \/ GetPolicy(c)
    \/ StoreText(c) \/ CompileFails(c)

LEMMA CallerReadsStep ==
    ASSUME TInv, StoreInv, NEW c \in Callers, CallerReads(c)
    PROVE  StoreInv' /\ SettledStep
  <1>0. pc \in [Callers -> {"idle", "load", "set", "compile"}]
    BY DEF TInv, TypeOK
  <1>1. CASE StoreText(c)
    BY <1>1, StoreTextStep
  <1>2. CASE CompileFails(c)
    BY <1>2, CompileFailsStep
  <1>3. CASE LoadNext(c)
    <2>1. /\ UNCHANGED <<policy_strings, code, oldStr, policy_sem>>
          /\ pc[c] = "load" /\ pc' = [pc EXCEPT ![c] = "set"]
          /\ arg' = [arg EXCEPT ![c] = Head(toLoad[c])]
      BY <1>3 DEF LoadNext, storeVars
    <2>2. QED BY <1>0, <2>1, OtherArgStep
  <1>4. ASSUME NEW n \in Names, NEW t \in Texts \cup {NoText}, SetNamed(c, n, t)
        PROVE  StoreInv' /\ SettledStep
    <2>1. /\ UNCHANGED <<policy_strings, code, oldStr, policy_sem>>
          /\ pc[c] = "idle" /\ pc' = [pc EXCEPT ![c] = "set"]
          /\ arg' = [arg EXCEPT ![c] = <<n, t>>]
      BY <1>4 DEF SetNamed, Call, storeVars
    <2>2. QED BY <1>0, <2>1, OtherArgStep
  <1>5. CASE LoadFails(c) \/ ListFails(c) \/ LoadDone(c) \/ GetPolicy(c)
    <2>1. /\ UNCHANGED <<policy_strings, code, arg, oldStr, policy_sem>>
          /\ pc' = pc \/ pc' = [pc EXCEPT ![c] = "idle"]
      BY <1>5 DEF LoadFails, ListFails, LoadDone, GetPolicy, storeVars
    <2>2. QED BY <1>0, <2>1, QuietStep
  <1>6. QED
    BY <1>1, <1>2, <1>3, <1>4, <1>5 DEF CallerReads

\* Either a step is one of those, or it clears the map or replaces a policy.
CallerClears(c) ==
    ClearAndLoad(c) \/ \E t \in Texts \cup {NoText} : ClearAndSet(c, t)

LEMMA CallerCases ==
    ASSUME NEW c \in Callers, Caller(c)
    PROVE  CallerClears(c) \/ CompileOk(c) \/ CompileRaises(c) \/ CallerReads(c)
  BY DEF Caller, CallerClears, CallerReads

LEMMA StoreStep == TInv /\ StoreInv /\ [Next]_vars => StoreInv'
  <1> SUFFICES ASSUME TInv, StoreInv, [Next]_vars PROVE StoreInv'
    OBVIOUS
  <1>1. CASE Engine
    BY <1>1, EngineReads
  <1>2. ASSUME NEW c \in Callers, Caller(c) PROVE StoreInv'
    BY <1>2, CallerCases, ClearStep, CompileOkStep, CompileRaisesStep,
       CallerReadsStep DEF CallerClears
  <1>3. CASE UNCHANGED vars
    BY <1>3, QuietStep DEF vars, storeVars, callerVars
  <1>4. QED
    BY <1>1, <1>2, <1>3 DEF Next

LEMMA StoreInit == Init => StoreInv
  BY StoreAssumption DEF Init, StoreInv, CodeBelongsToStrings, Settled

\* The code that is evaluated is that of the policies that are reported.
THEOREM CodeIsCurrent == Spec => []CodeBelongsToStrings
  BY TypeInit, TypeStep, StoreInit, StoreStep, PTL DEF Spec, StoreInv

\* Without a text that is deleted, what is settled stays as it is, and it has
\* no syntax error that would be met.
LEMMA NoEmptyDeletionRejected == TInv /\ StoreInv => DeletionsHadText
  <1> SUFFICES ASSUME TInv, StoreInv, NEW c \in Callers, Rejected(c),
                      arg[c][2] = NoText, oldStr[c] = NoText
               PROVE  FALSE
    BY DEF DeletionsHadText
  <1> USE StoreAssumption
  <1>1. /\ policy_sem = c /\ policy_strings[arg[c][1]] = NoText
        /\ arg[c][1] \in Names /\ policy_strings \in Strings
    BY DEF Rejected, TInv, TypeOK, StoreInv
  <1>2. Settled = policy_strings
    BY <1>1 DEF Settled, Strings
  <1>3. ~Parses(Settled) /\ ~Raises(Settled)
    BY <1>2 DEF Rejected
  <1>4. Settled # Empty
    BY <1>3, EmptyStrings
  <1>5. QED
    BY <1>3, <1>4 DEF StoreInv, CodeBelongsToStrings

\* A deletion that is rejected had something to delete: the rollback of
\* set_policy never deletes a name that is not there.
THEOREM RollbackHasText == Spec => []DeletionsHadText
  BY TypeInit, TypeStep, StoreInit, StoreStep, NoEmptyDeletionRejected, PTL DEF Spec

-----------------------------------------------------------------------------
(* load_policy with nobody interfering. *)

\* How many of the files are done.
Done(c) == Len(LoadList) - Len(toLoad[c])

\* s is what the first k files make of an empty map: each that is not faulty by
\* itself is there, unless a later one has its name, and nothing else is.
Loaded(s, k) ==
    /\ \A i \in 1..k :
          \/ LoadList[i][2] \notin Codes
          \/ \E j \in 1..k : j > i /\ LoadList[j][1] = LoadList[i][1]
          \/ s[LoadList[i][1]] = LoadList[i][2]
    /\ \A n \in Names : s[n] # NoText =>
          \E i \in 1..k : LoadList[i] = <<n, s[n]>>

\* The loop of c has handled a beginning of the list, and what it has stored
\* parses: only a faulty text can be rejected or raise.
LoadsAlone(c) ==
    c \in alone /\ pc[c] \in {"load", "set", "compile"} =>
        /\ Parses(Settled) /\ Done(c) \in Nat
        /\ \A i \in 1..Len(toLoad[c]) : toLoad[c][i] = LoadList[Done(c) + i]
        /\ Loaded(Settled, Done(c))
        /\ pc[c] # "load" => toLoad[c] # <<>> /\ arg[c] = toLoad[c][1]

\* Who is inside set_policy has disturbed all others.
ReloadInv ==
    /\ \A c \in Callers : pc[c] = "compile" => alone \subseteq {c}
    /\ \A c \in Callers : LoadsAlone(c)

LEMMA SettledType == ASSUME TInv PROVE Settled \in Strings
  <1>1. /\ policy_strings \in Strings /\ arg \in [Callers -> Names \X (Texts \cup {NoText})]
        /\ oldStr \in [Callers -> Texts \cup {NoText}]
    BY DEF TInv, TypeOK
  <1>2. QED BY <1>1 DEF Settled, Strings

LEMMA ReplacedLoaded ==
    ASSUME NEW s \in Strings, NEW k \in Nat, k + 1 <= Len(LoadList), Loaded(s, k)
    PROVE  Loaded([s EXCEPT ![LoadList[k + 1][1]] = LoadList[k + 1][2]], k + 1)
  <1> DEFINE n == LoadList[k + 1][1]
             x == LoadList[k + 1][2]
             t == [s EXCEPT ![n] = x]
  <1>1. LoadList \in Seq(Names \X Texts) /\ k + 1 \in 1..Len(LoadList)
    BY StoreAssumption
  <1>2. n \in Names /\ LoadList[k + 1] = <<n, x>>
    <2>1. LoadList[k + 1] \in Names \X Texts
      BY <1>1
    <2>2. QED BY <2>1
  <1>3. \A m \in Names : t[m] = IF m = n THEN x ELSE s[m]
    BY DEF Strings
  <1>4. \A i \in 1..k : LoadList[i][1] \in Names /\ i \in 1..(k + 1) /\ k + 1 > i
    <2>1. ASSUME NEW i \in 1..k PROVE LoadList[i][1] \in Names /\ i \in 1..(k + 1) /\ k + 1 > i
      <3>1. i \in 1..Len(LoadList)
        BY <1>1
      <3>2. LoadList[i] \in Names \X Texts
        BY <1>1, <3>1
      <3>3. QED BY <3>2
    <2>2. QED BY <2>1
  <1>5. k + 1 \in 1..(k + 1) /\ \A i \in 1..(k + 1) : i = k + 1 \/ i \in 1..k
    OBVIOUS
  <1> HIDE DEF t, n, x
  <1>6. ASSUME NEW i \in 1..(k + 1), LoadList[i][2] \in Codes,
               \A j \in 1..(k + 1) : ~(j > i /\ LoadList[j][1] = LoadList[i][1])
        PROVE  t[LoadList[i][1]] = LoadList[i][2]
    <2>1. CASE i = k + 1
      BY <1>2, <1>3, <2>1 DEF n, x
    <2>2. CASE i \in 1..k
      <3>1. LoadList[i][1] # n
        BY <1>4, <1>5, <1>6, <2>2 DEF n
      <3>2. s[LoadList[i][1]] = LoadList[i][2]
        BY <1>4, <1>6, <2>2 DEF Loaded
      <3>3. QED BY <1>3, <1>4, <2>2, <3>1, <3>2
    <2>3. QED BY <1>5, <2>1, <2>2
  <1>7. ASSUME NEW m \in Names, t[m] # NoText
        PROVE  \E i \in 1..(k + 1) : LoadList[i] = <<m, t[m]>>
    <2>1. CASE m = n
      BY <1>2, <1>3, <1>5, <2>1
    <2>2. CASE m # n
      <3>1. PICK i \in 1..k : LoadList[i] = <<m, s[m]>>
        BY <1>3, <1>7, <2>2 DEF Loaded
      <3>2. QED BY <1>3, <1>4, <2>2, <3>1
    <2>3. QED BY <2>1, <2>2
  <1>8. Loaded(t, k + 1)
    BY <1>6, <1>7 DEF Loaded
  <1>9. QED BY <1>8 DEF t, n, x

LEMMA SkippedLoaded ==
    ASSUME NEW s, NEW k \in Nat, Loaded(s, k), LoadList[k + 1][2] \notin Codes
    PROVE  Loaded(s, k + 1)
  <1>1. \A i \in 1..(k + 1) : i = k + 1 \/ i \in 1..k
    OBVIOUS
  <1>2. \A i \in 1..k : i \in 1..(k + 1)
    OBVIOUS
  <1>3. QED BY <1>1, <1>2 DEF Loaded

\* A text with an expression, and no fault, never spoils a map that parses.
LEMMA CodeParses ==
    ASSUME NEW s \in Strings, Parses(s), NEW n \in Names, NEW t \in Codes
    PROVE  Parses([s EXCEPT ![n] = t])
  <1> DEFINE u == [s EXCEPT ![n] = t]
  <1>1. \A m \in Names : u[m] = IF m = n THEN t ELSE s[m]
    BY DEF Strings
  <1> HIDE DEF u
  <1>2. u[n] \in Codes /\ t \notin Unscanned /\ t # Bad
    BY <1>1, StoreAssumption
  <1>3. ~ScanRaises(u)
    BY <1>1, <1>2 DEF Parses, Raises, ScanRaises
  <1>4. ~NoTokens(u)
    BY <1>2 DEF NoTokens
  <1>5. \A m \in Names : u[m] # Bad
    BY <1>1, <1>2 DEF Parses
  <1>6. Parses(u)
    BY <1>3, <1>4, <1>5 DEF Parses, Raises
  <1>7. QED BY <1>6 DEF u

\* A step that leaves c and the settled strings as they are.
LEMMA UntouchedLoad ==
    ASSUME NEW c \in Callers, LoadsAlone(c), Settled' = Settled,
           c \in alone' => c \in alone,
           pc'[c] = pc[c], toLoad'[c] = toLoad[c], arg'[c] = arg[c]
    PROVE  LoadsAlone(c)'
  BY DEF LoadsAlone, Done

\* One file is done.
LEMMA NextFile ==
    ASSUME TInv, NEW c \in Callers, LoadsAlone(c), c \in alone,
           pc[c] = "compile", toLoad'[c] = Tail(toLoad[c]), pc'[c] = "load",
           Parses(Settled'), Loaded(Settled', Done(c) + 1)
    PROVE  LoadsAlone(c)'
  <1> DEFINE q == toLoad[c]
  <1>1. /\ q \in Seq(Names \X Texts) /\ q # <<>> /\ Done(c) \in Nat
        /\ \A i \in 1..Len(q) : q[i] = LoadList[Done(c) + i]
    BY DEF LoadsAlone, TInv, TypeOK
  <1>2. /\ Len(Tail(q)) = Len(q) - 1 /\ Len(q) \in Nat
        /\ \A i \in 1..(Len(q) - 1) : Tail(q)[i] = q[i + 1] /\ i + 1 \in 1..Len(q)
    <2> HIDE DEF q
    <2>1. QED BY <1>1
  <1>3. toLoad'[c] = Tail(q) /\ Done(c) = Len(LoadList) - Len(q) /\ Len(LoadList) \in Nat
    BY StoreAssumption DEF Done
  <1>4. Done(c)' = Len(LoadList) - Len(toLoad'[c])
    BY DEF Done
  <1> HIDE DEF q
  <1>5. Done(c)' = Done(c) + 1
    <2>1. \A a, b \in Nat : a - (b - 1) = (a - b) + 1
      OBVIOUS
    <2>2. QED BY <1>2, <1>3, <1>4, <2>1
  <1>6. ASSUME NEW i \in 1..(Len(q) - 1) PROVE Tail(q)[i] = LoadList[(Done(c) + 1) + i]
    <2>1. Tail(q)[i] = q[i + 1] /\ q[i + 1] = LoadList[Done(c) + (i + 1)]
      BY <1>1, <1>2
    <2>2. Done(c) + (i + 1) = (Done(c) + 1) + i
      BY <1>1
    <2>3. QED BY <2>1, <2>2
  <1>7. Done(c)' \in Nat
    BY <1>1, <1>5
  <1>8. \A i \in 1..Len(toLoad'[c]) : toLoad'[c][i] = LoadList[Done(c)' + i]
    BY <1>2, <1>3, <1>5, <1>6
  <1>9. QED BY <1>5, <1>7, <1>8 DEF LoadsAlone

\* The beginning: nothing is stored, all is left.
LEMMA FirstFile ==
    ASSUME NEW c \in Callers, toLoad'[c] = LoadList, pc'[c] = "load", Settled' = Empty
    PROVE  LoadsAlone(c)'
  <1>1. Done(c)' = 0
    BY StoreAssumption DEF Done
  <1>2. Loaded(Empty, 0)
    BY DEF Loaded, Empty
  <1>3. \A i \in 1..Len(LoadList) : LoadList[0 + i] = LoadList[i]
    OBVIOUS
  <1>4. QED BY <1>1, <1>2, <1>3, EmptyStrings DEF LoadsAlone

LEMMA ReloadInit == Init => ReloadInv
  <1> SUFFICES ASSUME Init PROVE ReloadInv
    OBVIOUS
  <1>1. Settled = Empty /\ alone = {Starter} /\ Starter \in Callers
        /\ toLoad[Starter] = LoadList /\ pc[Starter] = "load"
        /\ \A c \in Callers : pc[c] # "compile"
    BY StoreAssumption DEF Init, Settled
  <1>2. Done(Starter) = 0
    BY <1>1, StoreAssumption DEF Done
  <1>3. Loaded(Empty, 0)
    BY DEF Loaded, Empty
  <1>4. \A i \in 1..Len(LoadList) : LoadList[0 + i] = LoadList[i]
    OBVIOUS
  <1>5. LoadsAlone(Starter)
    BY <1>1, <1>2, <1>3, <1>4, EmptyStrings DEF LoadsAlone
  <1>6. QED BY <1>1, <1>5 DEF ReloadInv, LoadsAlone

\* The engine, and the steps in which nothing is changed.
LEMMA ReloadQuiet ==
    ASSUME ReloadInv, Settled' = Settled, UNCHANGED <<pc, toLoad, arg, alone>>
    PROVE  ReloadInv'
  BY UntouchedLoad DEF ReloadInv

\* A caller's step as the loops of the others see it.
LEMMA ReloadOthers ==
    ASSUME TInv, ReloadInv, NEW c \in Callers, Caller(c),
           NEW d \in Callers, d # c, StoreInv
    PROVE  LoadsAlone(d)'
  <1>1. /\ pc \in [Callers -> {"idle", "load", "set", "compile"}]
        /\ arg \in [Callers -> Names \X (Texts \cup {NoText})]
        /\ toLoad \in [Callers -> Seq(Names \X Texts)]
    BY DEF TInv, TypeOK
  <1>2. pc'[d] = pc[d] /\ toLoad'[d] = toLoad[d] /\ arg'[d] = arg[d]
    BY <1>1 DEF Caller, SetNamed, ClearAndSet, ClearAndLoad, LoadNext, ListFails, LoadFails,
       LoadDone, StoreText, CompileOk, CompileFails, CompileRaises, Return, GetPolicy, Call
  <1>3. CASE CallerReads(c)
    <2>1. Settled' = Settled
      BY <1>3, CallerReadsStep DEF SettledStep
    <2>2. d \in alone' => d \in alone
      BY <1>3 DEF CallerReads, SetNamed, LoadNext, ListFails, LoadFails, LoadDone,
         StoreText, Disturb, CompileFails, Return, GetPolicy
    <2>3. QED BY <1>2, <2>1, <2>2, UntouchedLoad DEF ReloadInv
  <1>4. CASE CallerClears(c)
    <2>1. d \notin alone'
      BY <1>4 DEF CallerClears, ClearAndLoad, ClearAndSet
    <2>2. QED BY <2>1 DEF LoadsAlone
  <1>5. CASE CompileOk(c) \/ CompileRaises(c)
    <2>1. pc[c] = "compile" /\ alone' = alone
      BY <1>5 DEF CompileOk, CompileRaises, Return
    <2>2. d \notin alone'
      BY <2>1 DEF ReloadInv
    <2>3. QED BY <2>2 DEF LoadsAlone
  <1>6. QED BY <1>3, <1>4, <1>5, CallerCases

\* The loop's own steps.
LEMMA ReloadOwn ==
    ASSUME TInv, StoreInv, ReloadInv, NEW c \in Callers, Caller(c)
    PROVE  LoadsAlone(c)'
  <1>1. /\ pc \in [Callers -> {"idle", "load", "set", "compile"}]
        /\ arg \in [Callers -> Names \X (Texts \cup {NoText})]
        /\ toLoad \in [Callers -> Seq(Names \X Texts)]
        /\ LoadsAlone(c) /\ Settled \in Strings
    BY SettledType DEF TInv, TypeOK, ReloadInv
  <1>2. CASE c \notin alone'
    BY <1>2 DEF LoadsAlone
  <1>3. CASE ClearAndLoad(c)
    <2>1. Settled' = Empty
      BY <1>3, ClearStep
    <2>2. toLoad'[c] = LoadList /\ pc'[c] = "load"
      BY <1>1, <1>3 DEF ClearAndLoad
    <2>3. QED BY <2>1, <2>2, FirstFile
  <1>4. CASE GetPolicy(c)
    <2>1. Settled' = Settled
      BY <1>4, CallerReadsStep DEF CallerReads, SettledStep
    <2>2. UNCHANGED <<pc, toLoad, arg, alone>>
      BY <1>4 DEF GetPolicy
    <2>3. QED BY <1>1, <2>1, <2>2, UntouchedLoad
  <1>5. CASE LoadNext(c)
    <2>1. Settled' = Settled
      BY <1>5, CallerReadsStep DEF CallerReads, SettledStep
    <2>2. /\ pc[c] = "load" /\ toLoad[c] # <<>> /\ toLoad' = toLoad /\ alone' = alone
          /\ pc'[c] = "set" /\ arg'[c] = Head(toLoad[c])
      BY <1>1, <1>5 DEF LoadNext
    <2>3. Done(c)' = Done(c)
      BY <2>2 DEF Done
    <2>4. Head(toLoad[c]) = toLoad[c][1]
      OBVIOUS
    <2>5. QED BY <1>1, <2>1, <2>2, <2>3, <2>4 DEF LoadsAlone
  <1>6. CASE LoadDone(c)
    <2>1. pc'[c] = "idle"
      BY <1>1, <1>6 DEF LoadDone
    <2>2. QED BY <2>1 DEF LoadsAlone
  <1>7. CASE StoreText(c)
    <2>1. Settled' = Settled
      BY <1>7, CallerReadsStep DEF CallerReads, SettledStep
    <2>2. /\ pc[c] = "set" /\ toLoad' = toLoad /\ arg' = arg /\ pc'[c] = "compile"
          /\ c \in alone' => c \in alone
      BY <1>1, <1>7 DEF StoreText, Disturb
    <2>3. Done(c)' = Done(c)
      BY <2>2 DEF Done
    <2>4. QED BY <1>1, <2>1, <2>2, <2>3 DEF LoadsAlone
  <1>8. CASE CompileRaises(c)
    <2>1. pc'[c] = "idle"
      BY <1>1, <1>8 DEF CompileRaises
    <2>2. QED BY <2>1 DEF LoadsAlone
  <1>9. ASSUME c \in alone', CompileOk(c) \/ CompileFails(c) PROVE LoadsAlone(c)'
    <2>1. pc[c] = "compile" /\ c \in alone /\ Return(c) /\ policy_sem = c
      BY <1>9 DEF CompileOk, CompileFails, Rejected, Return, TInv, TypeOK
    <2>2. /\ Parses(Settled) /\ Done(c) \in Nat /\ Loaded(Settled, Done(c))
          /\ toLoad[c] # <<>> /\ arg[c] = toLoad[c][1]
          /\ \A i \in 1..Len(toLoad[c]) : toLoad[c][i] = LoadList[Done(c) + i]
      BY <1>1, <2>1 DEF LoadsAlone
    <2>3. toLoad'[c] = Tail(toLoad[c]) /\ pc'[c] = "load"
      BY <1>1, <2>1, <2>2 DEF Return
    <2>4. arg[c] = LoadList[Done(c) + 1] /\ Done(c) + 1 <= Len(LoadList)
      <3>1. toLoad[c] \in Seq(Names \X Texts) /\ Len(LoadList) \in Nat
        BY <1>1, StoreAssumption
      <3>2. Len(toLoad[c]) \in Nat /\ Len(toLoad[c]) > 0
        BY <2>2, <3>1
      <3>3. toLoad[c][1] = LoadList[Done(c) + 1]
        <4>1. 1 \in 1..Len(toLoad[c])
          BY <3>2
        <4>2. QED BY <2>2, <4>1
      <3>4. Done(c) + 1 <= Len(LoadList)
        <4>1. \A a, b \in Nat : b > 0 => (a - b) + 1 <= a
          OBVIOUS
        <4>2. Done(c) = Len(LoadList) - Len(toLoad[c])
          BY DEF Done
        <4>3. QED BY <3>1, <3>2, <4>1, <4>2
      <3>5. QED BY <2>2, <3>3, <3>4
    <2>5. CASE CompileOk(c)
      <3>1. Settled' = [Settled EXCEPT ![arg[c][1]] = arg[c][2]] /\ Parses(Settled')
        BY <2>5, CompileOkStep
      <3>2. Loaded(Settled', Done(c) + 1)
        BY <1>1, <2>2, <2>4, <3>1, ReplacedLoaded
      <3>3. QED BY <1>1, <2>1, <2>3, <3>1, <3>2, NextFile
    <2>6. CASE CompileFails(c)
      <3>1. Settled' = Settled
        BY <2>6, CompileFailsStep DEF SettledStep
      <3>2. arg[c][2] \notin Codes
        <4>1. policy_strings = [Settled EXCEPT ![arg[c][1]] = arg[c][2]]
          <5>1. policy_strings \in Strings /\ arg[c][1] \in Names
                /\ policy_strings[arg[c][1]] = arg[c][2]
            BY <1>1, <2>1 DEF StoreInv, TInv, TypeOK
          <5>2. QED BY <2>1, <5>1 DEF Settled, Strings
        <4>2. ~Parses(policy_strings) /\ arg[c][1] \in Names
          BY <1>1, <2>6 DEF CompileFails, Rejected
        <4>3. QED BY <1>1, <2>2, <4>1, <4>2, CodeParses
      <3>3. Loaded(Settled, Done(c) + 1)
        BY <2>2, <2>4, <3>2, SkippedLoaded
      <3>4. QED BY <1>1, <2>1, <2>2, <2>3, <3>1, <3>3, NextFile
    <2>7. QED BY <1>9, <2>5, <2>6
  <1>10. CASE \E n \in Names, t \in Texts \cup {NoText} : SetNamed(c, n, t)
    BY <1>2, <1>10 DEF SetNamed
  <1>11. CASE \E t \in Texts \cup {NoText} : ClearAndSet(c, t)
    BY <1>2, <1>11 DEF ClearAndSet
  <1>12. CASE ListFails(c) \/ LoadFails(c)
    BY <1>2, <1>12 DEF ListFails, LoadFails
  <1>13. QED
    BY <1>2, <1>3, <1>4, <1>5, <1>6, <1>7, <1>8, <1>9, <1>10, <1>11, <1>12 DEF Caller

LEMMA ReloadInside ==
    ASSUME TInv, ReloadInv, NEW c \in Callers, Caller(c), NEW d \in Callers, pc'[d] = "compile"
    PROVE  alone' \subseteq {d}
  <1>1. /\ pc \in [Callers -> {"idle", "load", "set", "compile"}]
        /\ \A b \in Callers : policy_sem = b <=> pc[b] = "compile"
        /\ "free" \notin Callers
    BY StoreAssumption DEF TInv, TypeOK
  <1>2. CASE StoreText(c)
    <2>1. d = c
      BY <1>1, <1>2 DEF StoreText
    <2>2. QED BY <1>2, <2>1 DEF StoreText, Disturb
  <1>3. CASE CallerClears(c)
    <2>1. policy_sem = "free" /\ (pc'[d] = pc[d] \/ pc'[d] # "compile")
      BY <1>1, <1>3 DEF CallerClears, ClearAndLoad, ClearAndSet, Clear
    <2>2. QED BY <1>1, <1>3, <2>1 DEF CallerClears, ClearAndLoad, ClearAndSet, Clear
  <1>4. CASE ~StoreText(c) /\ ~CallerClears(c)
    <2>1. pc[d] = "compile" /\ alone' \subseteq alone
      BY <1>1, <1>4 DEF Caller, CallerClears, SetNamed, LoadNext, ListFails, LoadFails,
         LoadDone, CompileOk, CompileFails, CompileRaises, Return, GetPolicy, Call
    <2>2. QED BY <2>1 DEF ReloadInv
  <1>5. QED BY <1>2, <1>3, <1>4

LEMMA ReloadStep == TInv /\ StoreInv /\ ReloadInv /\ [Next]_vars => ReloadInv'
  <1> SUFFICES ASSUME TInv, StoreInv, ReloadInv, [Next]_vars PROVE ReloadInv'
    OBVIOUS
  <1>1. CASE Engine
    <2>1. UNCHANGED <<pc, toLoad, arg, alone>>
      BY <1>1 DEF Engine, BeginRound, BeginEvaluation, EvaluateExpression,
         EvaluationFails, EndEvaluation, ProcessControllers, callerVars
    <2>2. Settled' = Settled
      BY <1>1, EngineReads DEF SettledStep
    <2>3. QED BY <2>1, <2>2, ReloadQuiet
  <1>2. ASSUME NEW c \in Callers, Caller(c) PROVE ReloadInv'
    BY <1>2, ReloadOwn, ReloadOthers, ReloadInside DEF ReloadInv
  <1>3. CASE UNCHANGED vars
    <2>1. Settled' = Settled
      BY <1>3 DEF vars, storeVars, callerVars, Settled
    <2>2. QED BY <1>3, <2>1, ReloadQuiet DEF vars, storeVars, callerVars
  <1>4. QED
    BY <1>1, <1>2, <1>3 DEF Next

LEMMA ReloadLoadsAll == TInv /\ ReloadInv => ResetLoadsAll
  <1> SUFFICES ASSUME TInv, ReloadInv, NEW c \in Callers,
                      pc[c] = "load", toLoad[c] = <<>>, c \in alone
               PROVE  Loaded(policy_strings, Len(LoadList))
    <2>1. DOMAIN LoadList = 1..Len(LoadList)
      BY StoreAssumption
    <2>2. QED BY <2>1 DEF ResetLoadsAll, Loaded
  <1>1. Loaded(Settled, Done(c))
    BY DEF ReloadInv, LoadsAlone
  <1>2. Done(c) = Len(LoadList)
    BY StoreAssumption DEF Done
  <1>3. policy_sem \notin Callers
    <2>1. \A d \in Callers : policy_sem = d => pc[d] = "compile" /\ alone \subseteq {d}
      BY DEF TInv, TypeOK, ReloadInv
    <2>2. QED BY <2>1
  <1>4. Settled = policy_strings
    BY <1>3 DEF Settled
  <1>5. QED BY <1>1, <1>2, <1>4

\* However many of the files are faulty or cannot be parsed, the loop of a reset
\* goes through all of them, and what it leaves is exactly the good ones.
THEOREM ResetIsComplete == Spec => []ResetLoadsAll
  BY TypeInit, TypeStep, StoreInit, StoreStep, ReloadInit, ReloadStep, ReloadLoadsAll,
     PTL DEF Spec

-----------------------------------------------------------------------------
(* The store implements the map. *)

MapDecision == IF epc = "act" THEN results ELSE decision

LEMMA MapInit == Init => Map!Init
  BY DEF Init, Map!Init, Empty, Map!Empty, Settled

\* A step that changes nothing the map knows of.
LEMMA MapStutters ==
    ASSUME SettledStep, answer' = answer, MapDecision' = MapDecision
    PROVE  UNCHANGED Map!vars
  BY DEF SettledStep, MapDecision, Map!vars

LEMMA EngineImplements ==
    ASSUME TInv, StoreInv, Engine PROVE [Map!Next]_(Map!vars)
  <1>1. SettledStep /\ answer' = answer
    BY EngineReads
  <1>2. CASE EndEvaluation
    <2>1. DOMAIN results = DOMAIN exprs
      BY <1>2 DEF EndEvaluation, Left, TInv, EngineInv
    <2>2. PICK d \in SUBSET (Names \cup {0}) : exprs \in [d -> Codes \cup {Zero}]
      BY DEF TInv, TypeOK, Programs
    <2>3. results = code
      BY <1>2, <2>1, <2>2 DEF EndEvaluation, TInv, EngineInv
    <2>4. MapDecision' = code
      BY <1>2, <2>3 DEF EndEvaluation, MapDecision
    <2>5. Map!Decide
      BY <1>1, <2>4 DEF Map!Decide, SettledStep, MapDecision
    <2>6. QED BY <2>5 DEF Map!Next
  <1>3. CASE ~EndEvaluation
    <2>1. MapDecision' = MapDecision
      BY <1>3 DEF MapDecision, Engine, BeginRound, BeginEvaluation,
         EvaluateExpression, EvaluationFails, ProcessControllers
    <2>2. QED BY <1>1, <2>1, MapStutters
  <1>4. QED BY <1>2, <1>3

LEMMA CallerImplements ==
    ASSUME TInv, StoreInv, NEW c \in Callers, Caller(c)
    PROVE  [Map!Next]_(Map!vars)
  <1>1. MapDecision' = MapDecision
    BY DEF MapDecision, Caller, SetNamed, ClearAndSet, ClearAndLoad, LoadNext,
       LoadFails, ListFails, LoadDone, StoreText, CompileOk, CompileFails, CompileRaises,
       Return, GetPolicy, engineVars
  <1>2. CASE CallerClears(c)
    <2>1. Settled' = Map!Empty /\ code' = NoCode
      BY <1>2, ClearStep DEF CallerClears, Empty, Map!Empty
    <2>2. answer' = answer
      BY <1>2 DEF CallerClears, ClearAndSet, ClearAndLoad
    <2>3. Map!Clear
      BY <1>1, <2>1, <2>2 DEF Map!Clear, MapDecision
    <2>4. QED BY <2>3 DEF Map!Next
  <1>3. CASE CompileOk(c)
    <2>1. arg[c] \in Names \X (Texts \cup {NoText})
      BY DEF TInv, TypeOK
    <2>2. answer' = answer
      BY <1>3 DEF CompileOk, Return
    <2>3. Map!Set(arg[c][1], arg[c][2])
      BY <1>1, <1>3, <2>2, CompileOkStep DEF Map!Set, MapDecision
    <2>4. QED BY <2>1, <2>3 DEF Map!Next
  <1>4. CASE CallerReads(c) /\ ~GetPolicy(c)
    <2>1. answer' = answer
      BY <1>4 DEF CallerReads, SetNamed, LoadNext, LoadFails, ListFails, LoadDone,
         StoreText, CompileFails, Return
    <2>2. QED BY <1>1, <1>4, <2>1, CallerReadsStep, MapStutters
  <1>5. CASE GetPolicy(c)
    <2>1. SettledStep
      BY <1>5, CallerReadsStep DEF CallerReads
    <2>2. Settled = policy_strings
      BY <1>5, StoreAssumption DEF GetPolicy, Settled
    <2>3. Map!Get(c)
      BY <1>1, <1>5, <2>1, <2>2 DEF Map!Get, GetPolicy, SettledStep, MapDecision
    <2>4. QED BY <2>3 DEF Map!Next
  <1>6. CASE CompileRaises(c)
    <2>1. arg[c] \in Names \X (Texts \cup {NoText})
      BY DEF TInv, TypeOK
    <2>2. answer' = answer
      BY <1>6 DEF CompileRaises
    <2>3. Map!SetUnparsed(arg[c][1], arg[c][2])
      BY <1>1, <1>6, <2>2, CompileRaisesStep DEF Map!SetUnparsed, MapDecision
    <2>4. QED BY <2>1, <2>3 DEF Map!Next
  <1>7. QED BY <1>2, <1>3, <1>4, <1>5, <1>6, CallerCases

LEMMA MapStep == TInv /\ StoreInv /\ [Next]_vars => [Map!Next]_(Map!vars)
  <1>1. ASSUME UNCHANGED vars PROVE UNCHANGED Map!vars
    BY <1>1 DEF vars, storeVars, callerVars, engineVars, Map!vars, Settled
  <1>2. QED
    BY <1>1, EngineImplements, CallerImplements DEF Next

\* Whatever the callers, the policy files and the engine do, and wherever they
\* fail: the policies and the program change together in one step, and what
\* the controllers act on is one whole program.
THEOREM ImplementsPolicyMap == Spec => MapSpec
  BY TypeInit, TypeStep, StoreInit, StoreStep, MapInit, MapStep, PTL
  DEF Spec, MapSpec, Map!Spec
=============================================================================
