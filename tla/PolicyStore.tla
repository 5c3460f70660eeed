---------------------------- MODULE PolicyStore ----------------------------
(***************************************************************************)
(* mom/Policy/Policy.py, the rpc_* operations and the control step of      *)
(* mom/PolicyEngine.py: callers (the RPC server's thread, the program that *)
(* embeds MOM) change and read the named policies while the policy engine  *)
(* evaluates them and hands the outcome to the controllers.                *)
(*                                                                         *)
(* A policy's text is one of Codes (at least one expression), Blanks (white *)
(* space and comments; Null is the empty string), Unscanned (a character    *)
(* that begins no token, an open quote, a last comment without line end) or *)
(* Bad (it does not parse, nor does any text with it inside).               *)
(***************************************************************************)
EXTENDS Naturals, Sequences

CONSTANTS Callers,    \* threads that call the rpc_* operations
          Starter,    \* the thread that makes the policy engine
          NumNames,   \* the names of policies are 1, 2, ..., as they sort
          Default,    \* DEFAULT_POLICY_NAME
          LoadList,   \* what load_policy finds: a sequence of <<name, text>>
          MaxCalls, MaxRounds, MaxFaults   \* bounds: calls, rounds, errors

CONSTANTS Codes, Blanks, Unscanned, Null, Bad, NoText, Zero

Names == 1..NumNames
Texts == Codes \cup Blanks \cup Unscanned \cup {Bad}

ASSUME StoreAssumption ==
    /\ NumNames \in Nat /\ Default \in Names
    /\ LoadList \in Seq(Names \X Texts)
    /\ Starter \in Callers
    /\ "engine" \notin Callers /\ "free" \notin Callers
    /\ NoText \notin Texts /\ NoText # Null /\ Null \notin Codes \cup Unscanned
    /\ Null # Bad /\ Bad \notin Codes \cup Blanks \cup Unscanned
    /\ Codes \cap (Blanks \cup Unscanned) = {} /\ Blanks \cap Unscanned = {}
    /\ MaxCalls \in Nat /\ MaxRounds \in Nat /\ MaxFaults \in Nat

VARIABLES policy_strings, \* name -> text, NoText if there is none
          code,           \* the compiled expressions: name -> text
          policy_sem,     \* who holds the semaphore
          up,             \* the policy engine has been made
          pc,             \* where each caller is
          arg,            \* caller -> <<name, text>> of its set_policy
          oldStr,         \* caller -> what set_policy replaced
          toLoad,         \* caller -> what load_policy has left to load
          answer,         \* caller -> what it was last told of the policies
          alone,          \* history: the callers since whose reset no other
                          \*   one changed the policies and no file failed
          epc,            \* where the policy engine is
          exprs, results, \* the code it evaluates, what it has evaluated
          decision,       \* what the controllers acted on last
          calls, rounds, faults   \* how much of the bounds is used up

storeVars == <<policy_strings, code, policy_sem>>
callerVars == <<up, pc, arg, oldStr, toLoad, answer, alone, calls>>
engineVars == <<epc, exprs, results, decision, rounds>>
vars == <<storeVars, callerVars, engineVars, faults>>

Empty == [n \in Names |-> NoText]

\* _cat_policies: the texts in the order of their names, separated by line
\* ends; '0' if that is the empty string.
Zeroed(s) ==
    /\ \A n \in Names : s[n] \in {NoText, Null}
    /\ \A m, n \in Names : s[m] = Null /\ s[n] = Null => m = n

\* GenericScanner.tokenize calls t_default with an argument too many, a
\* TypeError, wherever in the concatenation such a character is.
ScanRaises(s) == \E n \in Names : s[n] \in Unscanned

\* GenericParser.parse breaks down with an IndexError without a single token.
NoTokens(s) == ~Zeroed(s) /\ \A n \in Names : s[n] \notin Codes \cup {Bad}

\* get_code turns SystemExit into a PolicyError, and nothing else.
Raises(s) == ScanRaises(s) \/ NoTokens(s)
Parses(s) == ~Raises(s) /\ \A n \in Names : s[n] # Bad

Compile(s) ==
    LET names == {n \in Names : s[n] \in Codes}
    IN  IF names = {} THEN [n \in {0} |-> Zero] ELSE [n \in names |-> s[n]]

NoCode == [n \in {} |-> Zero]   \* the empty list of expressions

Init ==
    /\ policy_strings = Empty /\ code = NoCode /\ policy_sem = "free"
    /\ up = FALSE
    /\ pc = [c \in Callers |-> IF c = Starter THEN "load" ELSE "idle"]
    /\ arg = [c \in Callers |-> <<Default, NoText>>]
    /\ oldStr = [c \in Callers |-> NoText]
    /\ toLoad = [c \in Callers |-> IF c = Starter THEN LoadList ELSE <<>>]
    /\ answer = [c \in Callers |-> Empty]
    /\ alone = {Starter}
    /\ epc = "sleep" /\ exprs = NoCode /\ results = NoCode /\ decision = NoCode
    /\ calls = 0 /\ rounds = 0 /\ faults = 0

Call(c) == up /\ pc[c] = "idle" /\ calls < MaxCalls /\ calls' = calls + 1

\* c changes the policies: nobody else is alone with them any more.
Disturb(c) == alone \cap {c}

-----------------------------------------------------------------------------
(* The operations. *)

\* rpc_set_named_policy: set_policy is entered.
SetNamed(c, n, t) ==
    /\ Call(c)
    /\ arg' = [arg EXCEPT ![c] = <<n, t>>] /\ pc' = [pc EXCEPT ![c] = "set"]
    /\ alone' = alone \ {c}
    /\ UNCHANGED <<storeVars, up, oldStr, toLoad, answer, engineVars, faults>>

\* clear_policy, under the semaphore.
Clear == policy_sem = "free" /\ policy_strings' = Empty /\ code' = NoCode

\* rpc_set_policy: clear_policy first, then set_policy of the default name.
ClearAndSet(c, t) ==
    /\ Call(c) /\ Clear
    /\ arg' = [arg EXCEPT ![c] = <<Default, t>>] /\ pc' = [pc EXCEPT ![c] = "set"]
    /\ alone' = {}
    /\ UNCHANGED <<policy_sem, up, oldStr, toLoad, answer, engineVars, faults>>

\* rpc_reset_policy: clear_policy first, then load_policy.
ClearAndLoad(c) ==
    /\ Call(c) /\ Clear
    /\ toLoad' = [toLoad EXCEPT ![c] = LoadList] /\ pc' = [pc EXCEPT ![c] = "load"]
    /\ alone' = {c}
    /\ UNCHANGED <<policy_sem, up, arg, oldStr, answer, engineVars, faults>>

\* load_policy: the next file is read and given to set_policy.
LoadNext(c) ==
    /\ pc[c] = "load" /\ toLoad[c] # <<>>
    /\ arg' = [arg EXCEPT ![c] = Head(toLoad[c])] /\ pc' = [pc EXCEPT ![c] = "set"]
    /\ UNCHANGED <<storeVars, up, oldStr, toLoad, answer, alone, calls,
                   engineVars, faults>>

\* The directory cannot be listed: a warning.
ListFails(c) ==
    /\ pc[c] = "load" /\ toLoad[c] # <<>> /\ toLoad[c] = LoadList
    /\ faults < MaxFaults /\ faults' = faults + 1
    /\ toLoad' = [toLoad EXCEPT ![c] = <<>>]
    /\ alone' = alone \ {c}
    /\ UNCHANGED <<storeVars, up, pc, arg, oldStr, answer, calls, engineVars>>

\* The file cannot be read: a warning, and the next one.
LoadFails(c) ==
    /\ pc[c] = "load" /\ toLoad[c] # <<>>
    /\ faults < MaxFaults /\ faults' = faults + 1
    /\ toLoad' = [toLoad EXCEPT ![c] = Tail(@)]
    /\ alone' = alone \ {c}
    /\ UNCHANGED <<storeVars, up, pc, arg, oldStr, answer, calls, engineVars>>

\* All files are done; the constructor then starts the engine's thread.
LoadDone(c) ==
    /\ pc[c] = "load" /\ toLoad[c] = <<>>
    /\ pc' = [pc EXCEPT ![c] = "idle"] /\ up' = TRUE
    /\ UNCHANGED <<storeVars, arg, oldStr, toLoad, answer, alone, calls,
                   engineVars, faults>>

\* set_policy takes the semaphore and changes the strings.
StoreText(c) ==
    /\ pc[c] = "set" /\ policy_sem = "free"
    /\ policy_sem' = c /\ pc' = [pc EXCEPT ![c] = "compile"]
    /\ oldStr' = [oldStr EXCEPT ![c] = policy_strings[arg[c][1]]]
    /\ policy_strings' = [policy_strings EXCEPT ![arg[c][1]] = arg[c][2]]
    /\ alone' = Disturb(c)
    /\ UNCHANGED <<code, up, arg, toLoad, answer, calls, engineVars, faults>>

\* set_policy returns: to the caller, or to the loop of load_policy.
Return(c) ==
    /\ policy_sem' = "free"
    /\ \/ /\ toLoad[c] = <<>> /\ UNCHANGED toLoad
          /\ pc' = [pc EXCEPT ![c] = "idle"]
       \/ /\ toLoad[c] # <<>> /\ toLoad' = [toLoad EXCEPT ![c] = Tail(@)]
          /\ pc' = [pc EXCEPT ![c] = "load"]
    /\ UNCHANGED <<up, arg, oldStr, answer, alone, calls, engineVars, faults>>

\* The new strings are compiled.
CompileOk(c) ==
    /\ pc[c] = "compile" /\ Parses(policy_strings)
    /\ code' = Compile(policy_strings)
    /\ UNCHANGED policy_strings /\ Return(c)

\* PolicyError: a syntax error.
Rejected(c) ==
    pc[c] = "compile" /\ ~Parses(policy_strings) /\ ~Raises(policy_strings)

\* Deviations: a rejected text is deleted and the former one lost; load_policy
\* gives up.
CompileDeletes(c) ==
    /\ Rejected(c)
    /\ policy_strings' = [policy_strings EXCEPT ![arg[c][1]] = NoText]
    /\ UNCHANGED code /\ Return(c)
CompileGivesUp(c) ==
    /\ Rejected(c)
    /\ policy_strings' = [policy_strings EXCEPT ![arg[c][1]] = oldStr[c]]
    /\ toLoad' = [toLoad EXCEPT ![c] = <<>>] /\ policy_sem' = "free"
    /\ pc' = [pc EXCEPT ![c] = IF toLoad[c] = <<>> THEN "idle" ELSE "load"]
    /\ UNCHANGED <<code, up, arg, oldStr, answer, alone, calls, engineVars, faults>>

\* They cannot be parsed: the former text, or none, is put back, and the
\* code is still the former one.
CompileFails(c) ==
    /\ Rejected(c)
    /\ policy_strings' = [policy_strings EXCEPT ![arg[c][1]] = oldStr[c]]
    /\ UNCHANGED code /\ Return(c)

\* The exception leaves set_policy and load_policy: nothing is put back.  In
\* the constructor it is the end of the policy engine.
CompileRaises(c) ==
    /\ pc[c] = "compile" /\ Raises(policy_strings)
    /\ policy_sem' = "free" /\ pc' = [pc EXCEPT ![c] = "idle"]
    /\ toLoad' = [toLoad EXCEPT ![c] = <<>>]
    /\ UNCHANGED <<policy_strings, code, up, arg, oldStr, answer, alone, calls,
                   engineVars, faults>>

\* rpc_get_policy, rpc_get_named_policies.
GetPolicy(c) ==
    /\ Call(c) /\ policy_sem = "free"
    /\ answer' = [answer EXCEPT ![c] = policy_strings]
    /\ UNCHANGED <<storeVars, up, pc, arg, oldStr, toLoad, alone, engineVars, faults>>

Caller(c) ==
    \/ \E n \in Names, t \in Texts \cup {NoText} : SetNamed(c, n, t)
    \/ \E t \in Texts \cup {NoText} : ClearAndSet(c, t)
    \/ ClearAndLoad(c) \/ ListFails(c) \/ LoadNext(c) \/ LoadFails(c) \/ LoadDone(c)
    \/ StoreText(c) \/ CompileOk(c) \/ CompileFails(c) \/ CompileRaises(c)
    \/ GetPolicy(c)

-----------------------------------------------------------------------------
(* The control step of the policy engine. *)

\* do_controls: host and guests have been sampled, evaluate is called.
BeginRound ==
    /\ up /\ epc = "sleep" /\ rounds < MaxRounds /\ rounds' = rounds + 1
    /\ epc' = "lock"
    /\ UNCHANGED <<storeVars, callerVars, exprs, results, decision, faults>>

BeginEvaluation ==
    /\ epc = "lock" /\ policy_sem = "free" /\ policy_sem' = "engine"
    /\ exprs' = code /\ results' = NoCode /\ epc' = "eval"
    /\ UNCHANGED <<policy_strings, code, callerVars, decision, rounds, faults>>

\* The expressions the loop over self.code has left.
Left == DOMAIN exprs \ DOMAIN results

EvaluateExpression ==
    /\ epc = "eval"
    /\ \E n \in Left :
          /\ \A m \in Left : n <= m
          /\ results' = [m \in DOMAIN results \cup {n} |-> exprs[m]]
    /\ UNCHANGED <<storeVars, callerVars, epc, exprs, decision, rounds, faults>>

\* Deviations: the controllers are called with what there is; the semaphore
\* is not released.
FailureActs ==
    /\ epc = "eval" /\ Left # {}
    /\ faults < MaxFaults /\ faults' = faults + 1
    /\ policy_sem' = "free" /\ epc' = "act"
    /\ UNCHANGED <<policy_strings, code, callerVars, exprs, results, decision, rounds>>
FailureLeaks ==
    /\ epc = "eval" /\ Left # {}
    /\ faults < MaxFaults /\ faults' = faults + 1
    /\ epc' = "sleep"
    /\ UNCHANGED <<storeVars, callerVars, exprs, results, decision, rounds>>

\* An expression raises: evaluate returns False and the controllers are not
\* called; the entities with the controls set so far are forgotten.
EvaluationFails ==
    /\ epc = "eval" /\ Left # {}
    /\ faults < MaxFaults /\ faults' = faults + 1
    /\ policy_sem' = "free" /\ epc' = "sleep"
    /\ UNCHANGED <<policy_strings, code, callerVars, exprs, results, decision, rounds>>

EndEvaluation ==
    /\ epc = "eval" /\ Left = {}
    /\ policy_sem' = "free" /\ epc' = "act"
    /\ UNCHANGED <<policy_strings, code, callerVars, exprs, results, decision,
                   rounds, faults>>

\* Every controller processes host and guests, outside of the semaphore.
ProcessControllers ==
    /\ epc = "act" /\ decision' = results /\ epc' = "sleep"
    /\ UNCHANGED <<storeVars, callerVars, exprs, results, rounds, faults>>

Engine ==
    \/ BeginRound \/ BeginEvaluation \/ EvaluateExpression \/ EvaluationFails
    \/ EndEvaluation \/ ProcessControllers

Next == Engine \/ \E c \in Callers : Caller(c)

Spec == Init /\ [][Next]_vars

(* The threads run, and a semaphore that is free again and again is granted *)
(* in the end.  Nobody has to call, and nothing has to fail.                *)
Fairness ==
    /\ WF_vars(EvaluateExpression \/ EndEvaluation \/ ProcessControllers)
    /\ SF_vars(BeginEvaluation)
    /\ \A c \in Callers :
          /\ WF_vars(\/ LoadNext(c) \/ LoadDone(c) \/ CompileOk(c)
                     \/ CompileFails(c) \/ CompileRaises(c))
          /\ SF_vars(StoreText(c))

FairSpec == Spec /\ Fairness
-----------------------------------------------------------------------------
Strings == [Names -> Texts \cup {NoText}]
Programs == UNION {[ns -> Codes \cup {Zero}] : ns \in SUBSET (Names \cup {0})}

\* Types; the holder of the semaphore is where it may hold it.
TypeOK ==
    /\ policy_strings \in Strings /\ code \in Programs
    /\ policy_sem \in Callers \cup {"engine", "free"} /\ up \in BOOLEAN
    /\ pc \in [Callers -> {"idle", "load", "set", "compile"}]
    /\ arg \in [Callers -> Names \X (Texts \cup {NoText})]
    /\ oldStr \in [Callers -> Texts \cup {NoText}]
    /\ toLoad \in [Callers -> Seq(Names \X Texts)]
    /\ answer \in [Callers -> Strings] /\ alone \subseteq Callers
    /\ epc \in {"sleep", "lock", "eval", "act"}
    /\ exprs \in Programs /\ results \in Programs /\ decision \in Programs
    /\ calls \in 0..MaxCalls /\ rounds \in 0..MaxRounds /\ faults \in 0..MaxFaults
    /\ \A c \in Callers : policy_sem = c <=> pc[c] = "compile"
    /\ policy_sem = "engine" <=> epc = "eval"

\* The policies as everyone but the holder of the semaphore knows them.
Settled ==
    IF policy_sem \in Callers
    THEN [policy_strings EXCEPT ![arg[policy_sem][1]] = oldStr[policy_sem]]
    ELSE policy_strings

\* The code that is evaluated is the code of the policies that are reported,
\* whatever was rejected in between, or both have just been cleared; or the
\* policies make the scanner or the parser raise, and no code belongs to them.
CodeBelongsToStrings ==
    \/ Settled = Empty /\ code = NoCode
    \/ Raises(Settled)
    \/ Parses(Settled) /\ code = Compile(Settled)

\* A deletion is rejected only if there was something to delete, which is put
\* back: set_policy never ends with the KeyError of a second deletion.
DeletionsHadText ==
    \A c \in Callers : Rejected(c) /\ arg[c][2] = NoText => oldStr[c] # NoText

\* rpc_reset_policy, and the constructor, load every policy file that is not
\* faulty by itself, however many others are, and nothing else, when nobody
\* interferes.
ResetLoadsAll ==
    \A c \in Callers :
        pc[c] = "load" /\ toLoad[c] = <<>> /\ c \in alone =>
            /\ \A i \in DOMAIN LoadList :
                  \/ LoadList[i][2] \notin Codes
                  \/ \E j \in DOMAIN LoadList : j > i /\ LoadList[j][1] = LoadList[i][1]
                  \/ policy_strings[LoadList[i][1]] = LoadList[i][2]
            /\ \A n \in Names : policy_strings[n] # NoText =>
                  \E i \in DOMAIN LoadList : LoadList[i] = <<n, policy_strings[n]>>

\* The store implements a map that changes in one step, and a program that
\* changes with it; what the controllers act on is one whole program.
Map == INSTANCE PolicyMap WITH
    policies <- Settled,
    program <- code,
    decision <- IF epc = "act" THEN results ELSE decision
MapSpec == Map!Spec

\* tests/GeneralTests.py, testPolicyAPI: a policy that cannot be parsed is not
\* among the policies that are reported afterwards.
UnparsableIsUndone ==
    [][\A c \in Callers :
          pc[c] = "compile" /\ pc'[c] # "compile" /\ ~Parses(policy_strings)
             => policy_strings'[arg[c][1]] = oldStr[c]]_vars

\* Every operation on the policies returns, and every control step ends,
\* although they compete for one semaphore and fail at any place.
CallsAndRoundsEnd ==
    /\ \A c \in Callers : pc[c] # "idle" ~> pc[c] = "idle"
    /\ epc = "lock" ~> epc = "sleep"
=============================================================================
