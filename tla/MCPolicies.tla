----------------------------- MODULE MCPolicies -----------------------------
(***************************************************************************)
(* The parts of Policies, and for the policies that are written in the     *)
(* policy language the two steps their text goes through, parse and eval.  *)
(***************************************************************************)
EXTENDS MCGradient, Policies, Earley

CONSTANT MaxExprs        \* of the evaluator

VARIABLES evaluator, meant, done

\* Two equal VMs; then three, the second weighs more, the third is small.
EqualSizes == <<8, 8>>
EqualWeights == <<1, 1>>
ThreeSizes == <<8, 8, 5>>
MeasuredIdeals == {-1, 2, 4}

(* Policies of the language.                                               *)
a == <<"sym", "a">>
b == <<"sym", "b">>
Leaves == {<<"num", 1>>, a, b}
Simple == Leaves \cup {<<"set", x, l>> : x \in {"a", "b"}, l \in Leaves}
    \cup {<<"defvar", x, l>> : x \in {"a", "b"}, l \in Leaves}
    \cup {<<"op", f, <<a, b>>>> : f \in {"add", "lt", "or"}}
LessOne == <<"op", "add", <<a, <<"num", -1>>>>>>
Recursive == <<"def", "g", <<"a">>, <<"if", <<"op", "lt", <<a, <<"num", 1>>>>>>, b,
                                      <<"call", "g", <<LessOne>>>>>>>>
Programs ==
    Simple
    \cup {<<"let", <<<<"a", l>>>>, <<s>>>> : l \in Leaves, s \in Simple}
    \cup {<<"let", <<<<"a", l>>, <<"b", k>>>>, <<s, b>>>> :
              l \in Leaves, k \in Leaves, s \in Simple}
    \cup {<<"def", "f", ps, s>> : ps \in {<<"a", "b">>, <<"b">>}, s \in Simple}
    \cup {<<"call", "f", <<s, l>>>> : s \in Simple, l \in Leaves}
    \cup {<<"call", "f", <<s>>>> : s \in Simple}
    \cup {<<"with", x, "a", s>> : s \in Simple, x \in {"Guests", "a"}}
    \cup {<<"if", s, t, <<"num", 0>>>> : s \in Simple, t \in Simple}
    \cup {<<"eval", <<s, t>>>> : s \in Simple, t \in Leaves}
    \cup {<<"eval", <<>>>>, <<"defvar", "f", a>>, Recursive,
          <<"call", "f", <<<<"call", "f", <<a>>>>>>>>,
          <<"def", "f", <<"b">>, <<"let", <<<<"a", b>>>>, <<<<"call", "g", <<a>>>>>>>>>>}
TwoGuests == [Guests |-> <<"list", <<<<"int", 1>>, <<"int", 2>>>>>>]

Tree == INSTANCE EarleyTree
Eval == INSTANCE Evaluator WITH Exprs <- Programs, HostVars <- TwoGuests

evalVars == <<evaluator, meant, done>>
allVars == <<partsVars, parseVars, evalVars>>

AllInit == PartsInit /\ ParserInit /\ Eval!Init

AllNext ==
    \/ PartsNext /\ UNCHANGED <<parseVars, evalVars>>
    \/ part = "parse" /\ ParserNext /\ UNCHANGED <<partsVars, evalVars>>
    \/ part = "eval" /\ Eval!Next /\ UNCHANGED <<partsVars, parseVars>>

AllSpec == AllInit /\ [][AllNext]_allVars
-----------------------------------------------------------------------------
\* GenericParser.buildTree finds the structure.
ParserFindsStructure == part = "parse" => Tree!ParserFindsStructure

\* Evaluator.eval: scopes, variables and functions.
EvaluatorMeansIt == part = "eval" => Eval!EvaluatorMeansIt
=============================================================================
