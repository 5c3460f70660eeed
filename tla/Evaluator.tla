----------------------------- MODULE Evaluator -----------------------------
(***************************************************************************)
(* What the expressions of a policy do: Evaluator, VariableStack and       *)
(* GenericEvaluator of Parser.py.  The policy engine evaluates one after   *)
(* the other with the same evaluator; an exception ends the evaluation.    *)
(*                                                                         *)
(* An expression is a tuple that begins with its kind:                     *)
(*   <<"num", n>>, <<"sym", x>>, <<"op", f, args>> for the functions that   *)
(*   get values (add, lt, or), <<"if", c, yes, no>>, <<"set", x, e>>,       *)
(*   <<"defvar", x, e>>, <<"let", bindings, body>> with bindings <<x, e>>,  *)
(*   <<"with", list, x, e>>, <<"eval", body>> for { ... },                 *)
(*   <<"def", f, parameters, e>> and <<"call", f, args>>.                  *)
(* A value is <<"int", n>>, <<"name", f>> or <<"list", values>>.           *)
(***************************************************************************)
EXTENDS Integers, SequencesExt

CONSTANTS Exprs,      \* the expressions of the policies
          HostVars,   \* the variables the engine sets: Host, Guests
          MaxExprs    \* bound on the length of a policy

VARIABLES evaluator,  \* stack, funcs, and the last value, fail after an exception
          meant,      \* history: the same as Meaning has it
          done        \* how many expressions have been evaluated

vars == <<evaluator, meant, done>>

Number(n) == <<"int", n>>
Truth(b) == Number(IF b THEN 1 ELSE 0)
True(v) == v # Number(0) /\ v # <<"list", <<>>>>
With(f, x, v) == [y \in DOMAIN f \cup {x} |-> IF y = x THEN v ELSE f[y]]
NoFuncs == [f \in {} |-> <<<<>>, Number(0)>>]

\* c_add, c_lt, c_or, of values that are integers.
Apply(f, vs) ==
    CASE f = "add" -> Number(vs[1][2] + vs[2][2])
      [] f = "lt" -> Truth(vs[1][2] < vs[2][2])
      [] f = "or" -> IF \E i \in DOMAIN vs : True(vs[i])
                     THEN vs[CHOOSE i \in DOMAIN vs :
                               True(vs[i]) /\ \A j \in 1..i - 1 : ~True(vs[j])]
                     ELSE Last(vs)
Applies(f, vs) == \A i \in DOMAIN vs : vs[i][1] = "int"

-----------------------------------------------------------------------------
(* VariableStack: the innermost scope is the first. *)

Raise(s) == [s EXCEPT !.fail = TRUE]
Is(s, v) == [s EXCEPT !.val = v]
Known(s, x) == \E i \in DOMAIN s.stack : x \in DOMAIN s.stack[i]
ScopeOf(s, x) == CHOOSE i \in DOMAIN s.stack :
                    x \in DOMAIN s.stack[i] /\ \A j \in 1..i - 1 : x \notin DOMAIN s.stack[j]
Get(s, x) == IF Known(s, x) THEN Is(s, s.stack[ScopeOf(s, x)][x]) ELSE Raise(s)
Enter(s) == [s EXCEPT !.stack = <<NoFuncs>> \o @]
Leave(s) == [s EXCEPT !.stack = Tail(@)]

\* Deviation: set looks for the outermost scope.
SetOuter(s, x, v) ==
    IF Known(s, x)
    THEN LET i == CHOOSE i \in DOMAIN s.stack :
                     x \in DOMAIN s.stack[i] /\ \A j \in DOMAIN s.stack : j > i => x \notin DOMAIN s.stack[j]
         IN  Is([s EXCEPT !.stack[i][x] = v], v)
    ELSE Raise(s)
SetVar(s, x, v) ==
    IF Known(s, x) THEN Is([s EXCEPT !.stack[ScopeOf(s, x)][x] = v], v) ELSE Raise(s)

\* set with alloc: a variable of the innermost scope keeps its value.
Alloc(s, x, v) ==
    LET t == IF x \in DOMAIN s.stack[1] THEN s ELSE [s EXCEPT !.stack[1] = With(@, x, v)]
    IN  Is(t, t.stack[1][x])

-----------------------------------------------------------------------------
(* eval; s.fail stands for an exception that goes through all callers. *)

RECURSIVE Eval(_, _), EvalAll(_, _, _), Bind(_, _), Body(_, _), ForEach(_, _, _, _, _)

EvalAll(es, s, vals) ==
    IF es = <<>> \/ s.fail THEN [s |-> s, vals |-> vals]
    ELSE LET t == Eval(es[1], s) IN EvalAll(Tail(es), t, Append(vals, t.val))

Body(es, s) == IF es = <<>> \/ s.fail THEN s ELSE Body(Tail(es), Eval(es[1], s))

\* The bindings of let are made one by one, in the new scope.
Bind(bs, s) ==
    IF bs = <<>> \/ s.fail THEN s
    ELSE LET t == Eval(bs[1][2], s)
         IN  Bind(Tail(bs), IF t.fail THEN t ELSE Alloc(t, bs[1][1], t.val))

ForEach(vs, x, e, s, vals) ==
    IF s.fail THEN s
    ELSE IF vs = <<>> THEN Is(s, <<"list", vals>>)
    ELSE LET t == Eval(e, Alloc(Enter(s), x, vs[1]))
         IN  ForEach(Tail(vs), x, e, IF t.fail THEN t ELSE Leave(t), Append(vals, t.val))

Let(bs, body, s) ==
    LET t == Body(body, Bind(bs, Enter(s))) IN IF t.fail THEN t ELSE Leave(t)

\* A variable that has the function's name is called, and is no function.
Shadowed(s, f) == Known(s, f)

Eval(e, s) ==
    CASE e[1] = "num" -> Is(s, Number(e[2]))
      [] e[1] = "sym" -> Get(s, e[2])
      [] e[1] = "op" ->
            LET r == EvalAll(e[3], s, <<>>)
            IN  IF r.s.fail \/ ~Applies(e[2], r.vals) THEN Raise(r.s)
                ELSE Is(r.s, Apply(e[2], r.vals))
      [] e[1] = "if" ->
            LET t == Eval(e[2], s)
            IN  IF t.fail THEN t ELSE IF True(t.val) THEN Eval(e[3], t) ELSE Eval(e[4], t)
      [] e[1] = "set" ->
            LET t == Eval(e[3], s) IN IF t.fail THEN t ELSE SetVar(t, e[2], t.val)
      [] e[1] = "defvar" ->
            LET t == Eval(e[3], s) IN IF t.fail THEN t ELSE Alloc(t, e[2], t.val)
      [] e[1] = "let" -> Let(e[2], e[3], s)
      [] e[1] = "with" ->
            LET t == Get(s, e[2])
            IN  IF t.fail \/ t.val[1] # "list" THEN Raise(t)
                ELSE ForEach(t.val[2], e[3], e[4], t, <<>>)
      [] e[1] = "eval" -> IF e[2] = <<>> THEN Raise(s) ELSE Body(e[2], s)
      [] e[1] = "def" -> Is([s EXCEPT !.funcs = With(@, e[2], <<e[3], e[4]>>)], <<"name", e[2]>>)
      [] e[1] = "call" ->      \* default: a let of the parameters
            IF Shadowed(s, e[2]) \/ e[2] \notin DOMAIN s.funcs THEN Raise(s)
            ELSE LET params == s.funcs[e[2]][1]
                 IN  IF Len(params) # Len(e[3]) THEN Raise(s)
                     ELSE Let([i \in DOMAIN params |-> <<params[i], e[3][i]>>],
                              <<s.funcs[e[2]][2]>>, s)

-----------------------------------------------------------------------------
(* What is meant: a scope is an environment that is handed down, a variable *)
(* a place in a store, and a function gets the values of its arguments.     *)

RECURSIVE Parts(_)
PartsOf(es) == UNION {Parts(es[i]) : i \in DOMAIN es}
Parts(e) ==
    {e} \cup CASE e[1] \in {"num", "sym", "def"} -> {}
               [] e[1] \in {"op", "call"} -> PartsOf(e[3])
               [] e[1] = "if" -> PartsOf(Tail(e))
               [] e[1] \in {"set", "defvar"} -> Parts(e[3])
               [] e[1] = "with" -> Parts(e[4])
               [] e[1] = "eval" -> PartsOf(e[2])
               [] e[1] = "let" ->
                     PartsOf([i \in DOMAIN e[2] |-> e[2][i][2]]) \cup PartsOf(e[3])

\* default evaluates the arguments one by one in the scope it makes for the
\* parameters: an argument must not be about an earlier parameter, by itself or
\* in a function it calls, nor define a variable.
Captures(params, args) ==
    \E i \in DOMAIN args : \E e \in Parts(args[i]) :
        \/ e[1] = "defvar"
        \/ i > 1 /\ e[1] \in {"call", "def"}
        \/ i > 1 /\ e[1] \in {"sym", "set", "with"} /\ \E j \in 1..i - 1 : e[2] = params[j]

Fails(m) == [m EXCEPT !.fail = TRUE]
Gives(m, v) == [m EXCEPT !.val = v]
New(m, x, v) == [m EXCEPT !.env = With(@, x, Len(m.store) + 1), !.own = @ \cup {x},
                          !.store = Append(@, v), !.val = v]
Inside(m) == [m EXCEPT !.own = {}]
Back(m, outer) == [m EXCEPT !.env = outer.env, !.own = outer.own]

RECURSIVE Meaning(_, _), Meanings(_, _, _), Bindings(_, _), MeaningForEach(_, _, _, _, _)

Meanings(es, m, vals) ==
    IF es = <<>> \/ m.fail THEN [m |-> m, vals |-> vals]
    ELSE LET t == Meaning(es[1], m) IN Meanings(Tail(es), t, Append(vals, t.val))

Bindings(bs, m) ==
    IF bs = <<>> \/ m.fail THEN m
    ELSE LET t == Meaning(bs[1][2], m)
         IN  Bindings(Tail(bs), IF t.fail \/ bs[1][1] \in t.own THEN t
                                ELSE New(t, bs[1][1], t.val))

MeaningForEach(vs, x, e, m, vals) ==
    IF m.fail THEN m
    ELSE IF vs = <<>> THEN Gives(m, <<"list", vals>>)
    ELSE LET t == Meaning(e, New(Inside(m), x, vs[1]))
         IN  MeaningForEach(Tail(vs), x, e, Back(t, m), Append(vals, t.val))

Meaning(e, m) ==
    CASE e[1] = "num" -> Gives(m, Number(e[2]))
      [] e[1] = "sym" ->
            IF e[2] \in DOMAIN m.env THEN Gives(m, m.store[m.env[e[2]]]) ELSE Fails(m)
      [] e[1] = "op" ->
            LET r == Meanings(e[3], m, <<>>)
            IN  IF r.m.fail \/ ~Applies(e[2], r.vals) THEN Fails(r.m)
                ELSE Gives(r.m, Apply(e[2], r.vals))
      [] e[1] = "if" ->
            LET t == Meaning(e[2], m)
            IN  IF t.fail THEN t ELSE Meaning(IF True(t.val) THEN e[3] ELSE e[4], t)
      [] e[1] = "set" ->
            LET t == Meaning(e[3], m)
            IN  IF t.fail \/ e[2] \notin DOMAIN t.env THEN Fails(t)
                ELSE [t EXCEPT !.store[t.env[e[2]]] = t.val]
      [] e[1] = "defvar" ->
            LET t == Meaning(e[3], m)
            IN  IF t.fail THEN t
                ELSE IF e[2] \in t.own THEN Gives(t, t.store[t.env[e[2]]])
                ELSE New(t, e[2], t.val)
      [] e[1] = "let" ->
            Back(Meanings(e[3], Bindings(e[2], Inside(m)), <<>>).m, m)
      [] e[1] = "with" ->
            IF e[2] \notin DOMAIN m.env \/ m.store[m.env[e[2]]][1] # "list" THEN Fails(m)
            ELSE MeaningForEach(m.store[m.env[e[2]]][2], e[3], e[4], m, <<>>)
      [] e[1] = "eval" -> IF e[2] = <<>> THEN Fails(m) ELSE Meanings(e[2], m, <<>>).m
      [] e[1] = "def" ->
            Gives([m EXCEPT !.funcs = With(@, e[2], <<e[3], e[4]>>)], <<"name", e[2]>>)
      [] e[1] = "call" ->
            IF e[2] \in DOMAIN m.env \/ e[2] \notin DOMAIN m.funcs THEN Fails(m)
            ELSE LET params == m.funcs[e[2]][1]
                     r == Meanings(e[3], [m EXCEPT !.captured = @ \/ Captures(params, e[3])], <<>>)
                     values == [i \in DOMAIN params |-> <<params[i], <<"value", r.vals[i]>>>>]
                 IN  IF Len(params) # Len(e[3]) \/ r.m.fail THEN Fails(r.m)
                     ELSE Back(Meaning(m.funcs[e[2]][2], Bindings(values, Inside(r.m))), r.m)
      [] e[1] = "value" -> Gives(m, e[2])

-----------------------------------------------------------------------------
\* evaluate makes an evaluator with the host and the guests in it.
Init ==
    /\ evaluator = [stack |-> <<HostVars>>, funcs |-> NoFuncs, val |-> Number(0), fail |-> FALSE]
    /\ meant = [vars |-> HostVars, funcs |-> NoFuncs, val |-> Number(0), fail |-> FALSE,
                captured |-> FALSE]
    /\ done = 0

\* Between two expressions there is one scope, and no place to remember.
MeaningOf(e, n) ==
    LET xs == SetToSeq(DOMAIN n.vars)
        m == Meaning(e, [env |-> [x \in DOMAIN n.vars |-> CHOOSE i \in DOMAIN xs : xs[i] = x],
                         own |-> DOMAIN n.vars, store |-> [i \in DOMAIN xs |-> n.vars[xs[i]]],
                         funcs |-> n.funcs, val |-> n.val, fail |-> FALSE,
                         captured |-> n.captured])
    IN  [vars |-> [x \in DOMAIN m.env |-> m.store[m.env[x]]], funcs |-> m.funcs,
         val |-> m.val, fail |-> m.fail, captured |-> m.captured]

\* The next expression of the policy.
EvaluateNext(e) ==
    /\ ~evaluator.fail /\ ~meant.captured /\ done < MaxExprs /\ done' = done + 1
    /\ evaluator' = Eval(e, evaluator)
    /\ meant' = MeaningOf(e, meant)

Next == \E e \in Exprs : EvaluateNext(e)

Spec == Init /\ [][Next]_vars
-----------------------------------------------------------------------------
\* An expression gives what it means, and leaves the variables and functions it
\* means to: every scope that is entered is left, an assignment reaches the
\* variable that is visible, a definition the innermost scope, and a function's
\* body and arguments those they should.
EvaluatorMeansIt ==
    ~meant.captured =>
        /\ evaluator.fail = meant.fail
        /\ ~meant.fail =>
              /\ evaluator.val = meant.val /\ evaluator.funcs = meant.funcs
              /\ evaluator.stack = <<meant.vars>>
=============================================================================
