----------------------------- MODULE EarleyTree -----------------------------
(***************************************************************************)
(* What the parser makes of a policy: buildTree of spark.py, with the      *)
(* methods of Parser.py, from the tree of Earley.                          *)
(***************************************************************************)
EXTENDS Earley, SequencesExt

\* What a completer step has noted for an item.
Noted(item, i) == {note[3] : note \in {n \in tree : n[1] = item /\ n[2] = i}}

\* ambiguity: of several the shortest rule.
Choice(children) ==
    CHOOSE c \in children : \A d \in children : Len(c.rhs) <= Len(d.rhs)

\* Deviation: the first of the list's values is lost.
SecondOf(args) == IF Len(args) = 2 THEN <<>> ELSE Tail(args[2])
mklist(args) == IF Len(args) = 2 THEN <<>> ELSE args[2]

RECURSIVE Build(_, _), Children(_, _)

\* What the rule's method makes of the values of its right side.
Build(item, i) ==
    LET args == Children(item, i)
    IN  CASE item.lhs \in {"START", "value"} -> args[1]
          [] item.lhs = "value_list" ->
                IF Len(args) = 1 THEN args ELSE Append(args[1], args[2])
          [] item.lhs \in {"list", "bracket_list"} -> <<"node", mklist(args)>>
          [] item.lhs = "curly_list" -> <<"node", <<<<"leaf", "eval">>>> \o mklist(args)>>

\* buildTree_r, from the right to the left: the values left of the dot.  What is
\* not noted in tree is a token.
Children(item, i) ==
    IF item.pos = 0 THEN <<>>
    ELSE LET before == [item EXCEPT !.pos = @ - 1]
             children == Noted(item, i)
             child == Choice(children)
         IN  IF children = {}
             THEN Append(Children(before, i - 1), <<"leaf", i, tokens[i]>>)
             ELSE Append(Children(before, child.parent), Build(child, i))

-----------------------------------------------------------------------------
(* The same with a stack of the lists that are open. *)

OnTop(stack, v) == [stack EXCEPT ![Len(stack)] = Append(@, v)]
Push(stack, n, token) ==
    CASE token \in Opens -> Append(stack, IF token = "{" THEN <<<<"leaf", "eval">>>> ELSE <<>>)
      [] token \in DOMAIN Partner -> OnTop(Front(stack), <<"node", Last(stack)>>)
      [] OTHER -> OnTop(stack, <<"leaf", n, token>>)

RECURSIVE Lists(_)
Lists(n) == IF n = 0 THEN <<<<>>>> ELSE Push(Lists(n - 1), n, tokens[n])

\* The code of a policy has the structure of its brackets.
ParserFindsStructure ==
    outcome = "code" => Build(StartItem(2), Len(tokens)) = Lists(Len(tokens) - 1)[1]
=============================================================================
