----------------------------- MODULE PolicyMap -----------------------------
(***************************************************************************)
(* What mom/Policy/Policy.py promises: a map of named policies that        *)
(* changes in one step, a program that belongs to the map, and decisions   *)
(* that come from one whole program.  Replacing and resetting the policy   *)
(* is not one step: the map is cleared first.                              *)
(***************************************************************************)
CONSTANTS Callers, Names, Texts, NoText,
          NoCode,      \* the program of an empty store
          Parses(_),   \* can the concatenation of a map's texts be parsed?
          Compile(_),  \* and to which program?
          Raises(_)    \* or does it not even come to that?

VARIABLES policies,   \* name -> text
          program,    \* what an evaluation would run
          answer,     \* caller -> the map it was last told
          decision    \* the expressions the controllers' inputs come from

vars == <<policies, program, answer, decision>>

Empty == [n \in Names |-> NoText]

Init ==
    /\ policies = Empty /\ program = NoCode
    /\ answer = [c \in Callers |-> Empty] /\ decision = NoCode

\* A policy is stored, replaced or deleted, if the outcome can be parsed.
Set(n, t) ==
    /\ policies' = [policies EXCEPT ![n] = t]
    /\ Parses(policies') /\ program' = Compile(policies')
    /\ UNCHANGED <<answer, decision>>

\* A map that cannot be scanned is kept, but so is the former program.
SetUnparsed(n, t) ==
    /\ policies' = [policies EXCEPT ![n] = t]
    /\ Raises(policies') /\ UNCHANGED <<program, answer, decision>>

Clear ==
    /\ policies' = Empty /\ program' = NoCode
    /\ UNCHANGED <<answer, decision>>

Get(c) ==
    /\ answer' = [answer EXCEPT ![c] = policies]
    /\ UNCHANGED <<policies, program, decision>>

Decide ==
    /\ decision' = program
    /\ UNCHANGED <<policies, program, answer>>

Next ==
    \/ \E n \in Names, t \in Texts \cup {NoText} : Set(n, t) \/ SetUnparsed(n, t)
    \/ Clear \/ Decide
    \/ \E c \in Callers : Get(c)

Spec == Init /\ [][Next]_vars
=============================================================================
