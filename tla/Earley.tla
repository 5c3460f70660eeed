------------------------------- MODULE Earley -------------------------------
(***************************************************************************)
(* Which texts of tokens are policies: Earley's parser of spark.py         *)
(* (GenericParser) with the grammar of Parser.py (Parser).  A token is its *)
(* kind; the tokens come one by one, as no step looks ahead of the next    *)
(* one.                                                                    *)
(*                                                                         *)
(* The list of items of a state is a set here, and its loop takes all the  *)
(* items at once that it has not come to.  No rule of the grammar has an   *)
(* empty right side: an item is completed from an earlier state, which is  *)
(* finished, so that the order of the loop makes no difference.  The       *)
(* parser's steps for empty rules are left out.                            *)
(***************************************************************************)
EXTENDS Naturals, Sequences

CONSTANTS Atoms,       \* the kinds of tokens that occur beside the brackets
          MaxTokens    \* bound on the length of a policy

Brackets == {"(", ")", "[", "]", "{", "}"}
EOF == "EOF"

\* The rules by their left side; p_value has the rule for operators twice.
Rules == [START |-> {<<"value_list", EOF>>},
          value_list |-> {<<"value">>, <<"value_list", "value">>},
          list |-> {<<"(", ")">>, <<"(", "value_list", ")">>},
          bracket_list |-> {<<"[", "]">>, <<"[", "value_list", "]">>},
          curly_list |-> {<<"{", "}">>, <<"{", "value_list", "}">>},
          value |-> {<<"operator">>, <<"number">>, <<"symbol">>, <<"string">>,
                     <<"single_quote_string">>, <<"list">>, <<"curly_list">>,
                     <<"bracket_list">>}]
Nonterminals == DOMAIN Rules

Tokens == {k \in Atoms : <<k>> \in Rules.value /\ k \notin Nonterminals} \cup Brackets \cup {EOF}

Item(lhs, rhs, pos, parent) == [lhs |-> lhs, rhs |-> rhs, pos |-> pos, parent |-> parent]
StartItem(pos) == Item("START", <<"value_list", EOF>>, pos, 0)

VARIABLES tokens,    \* the tokens so far, EOF the last
          states,    \* the items: states[i + 1] before token i, which is tokens[i + 1]
          pending,   \* the items of the present state the loop has not come to
          next,      \* states[i + 1] of buildState: the items of the next state
          tree,      \* <<item, i, done>>: in state i the item came from the completed done
          outcome,   \* "reading" and "walking" in the loops, then how parse ends
          inside     \* history: inside[i + 1] is the number of the innermost bracket
                     \*   that is open after i tokens, 0 for none

parseVars == <<tokens, states, pending, next, tree, outcome, inside>>

ParserInit ==
    /\ tokens = <<>> /\ states = <<{StartItem(0)}>> /\ pending = {} /\ next = {}
    /\ tree = {} /\ outcome = "reading" /\ inside = <<0>>

-----------------------------------------------------------------------------
(* The reference: brackets that match. *)

Opens == {"(", "[", "{"}
Partner == [b \in {")", "]", "}"} |-> CASE b = ")" -> "(" [] b = "]" -> "[" [] b = "}" -> "{"]
Innermost == inside[Len(inside)]

\* Whether a token may come: a closing bracket needs its partner, the end that
\* nothing is open and that there is a token.
Matches(token) ==
    /\ token \in DOMAIN Partner => Innermost # 0 /\ tokens[Innermost] = Partner[token]
    /\ token = EOF => Innermost = 0 /\ tokens # <<>>

\* The innermost open bracket after it; a closed one makes way for what it was in.
InnermostAfter(token) ==
    IF token \in Opens THEN Len(tokens) + 1
    ELSE IF token \in DOMAIN Partner THEN inside[Innermost] ELSE Innermost

Matched == Len(inside) = Len(tokens) + 1

-----------------------------------------------------------------------------
\* parse takes the next token; EOF is appended to them.
Read(token) ==
    /\ outcome = "reading" /\ outcome' = "walking"
    /\ tokens' = Append(tokens, token)
    /\ pending' = states[Len(states)] /\ next' = {}
    /\ inside' = IF Matches(token) THEN Append(inside, InnermostAfter(token)) ELSE inside
    /\ UNCHANGED <<states, tree>>

(* buildState. *)
At == Len(tokens) - 1
Token == tokens[Len(tokens)]

Advance(item) == [item EXCEPT !.pos = @ + 1]
Complete(item) == item.pos = Len(item.rhs)
NextSym(item) == item.rhs[item.pos + 1]

\* Deviation: the items are looked for in the state before this one.
WaitingBefore(done) ==
    {p \in states[Len(tokens) - 1] : ~Complete(p) /\ NextSym(p) = done.lhs}

\* The items that wait for a completed one, where that one began.
Waiting(done) ==
    {p \in states[done.parent + 1] : ~Complete(p) /\ NextSym(p) = done.lhs}

\* A rule that begins with another terminal than the token is not predicted.
Fits(rhs) == rhs[1] \in Nonterminals \/ rhs[1] = Token

Completer(item) == {Advance(p) : p \in Waiting(item)}
Predictor(item) ==
    {Item(NextSym(item), rhs, 0, At) : rhs \in {r \in Rules[NextSym(item)] : Fits(r)}}

Completed == {item \in pending : Complete(item)}
Predicting == {item \in pending : ~Complete(item) /\ NextSym(item) \in Nonterminals}
Scanned == {item \in pending : ~Complete(item) /\ NextSym(item) = Token}
New == (UNION {Completer(item) : item \in Completed})
           \cup (UNION {Predictor(item) : item \in Predicting})

\* The loop over the state, which grows while it goes on.
Walk ==
    /\ outcome = "walking" /\ pending # {}
    /\ states' = [states EXCEPT ![Len(tokens)] = @ \cup New]
    /\ pending' = New \ states[Len(tokens)]
    /\ next' = next \cup {Advance(item) : item \in Scanned}
    /\ tree' = tree \cup (UNION {{<<Advance(p), At, item>> : p \in Waiting(item)} : item \in Completed})
    /\ UNCHANGED <<tokens, outcome, inside>>

\* parse, after buildState: an empty state ends it, and so does EOF.
EndState ==
    /\ outcome = "walking" /\ pending = {}
    /\ outcome' = IF Token # EOF THEN IF next = {} THEN "error" ELSE "reading"
                  ELSE IF next = {StartItem(2)} THEN "code"
                  ELSE IF At = 0 THEN "IndexError" ELSE "error"
    /\ states' = IF outcome' = "reading" THEN Append(states, next) ELSE states
    /\ UNCHANGED <<tokens, pending, next, tree, inside>>

ParserNext ==
    \/ \E token \in Tokens : (Len(tokens) < MaxTokens \/ token = EOF) /\ Read(token)
    \/ Walk \/ EndState

ParserSpec == ParserInit /\ [][ParserNext]_parseVars
-----------------------------------------------------------------------------
\* The parser accepts exactly the policies whose brackets match and that have a
\* token, and it notices the first token that fits nowhere.
ParserAcceptsMatched ==
    /\ outcome \in {"reading", "code"} => Matched
    /\ outcome \in {"error", "IndexError"} => ~Matched
=============================================================================
