----------------------------- MODULE EarleyProof -----------------------------
(***************************************************************************)
(* The parser of policies accepts what has matching brackets, for texts of *)
(* any length.                                                             *)
(***************************************************************************)
EXTENDS Earley, SequenceTheorems, TLAPS

-----------------------------------------------------------------------------
(* The grammar: its rules have eight forms. *)

ListKinds == {"list", "bracket_list", "curly_list"}
AtomKinds == {"operator", "number", "symbol", "string", "single_quote_string"}
Opening(c) == IF c = "list" THEN "(" ELSE IF c = "bracket_list" THEN "[" ELSE "{"
Closing(c) == IF c = "list" THEN ")" ELSE IF c = "bracket_list" THEN "]" ELSE "}"

StartRule == <<"value_list", EOF>>
OneRule == <<"value">>
MoreRule == <<"value_list", "value">>
UnitRule(k) == <<k>>
EmptyRule(c) == <<Opening(c), Closing(c)>>
FullRule(c) == <<Opening(c), "value_list", Closing(c)>>

LEMMA RulesAre ==
    /\ Nonterminals = {"START", "value_list", "value"} \cup ListKinds
    /\ Rules["START"] = {StartRule} /\ Rules["value_list"] = {OneRule, MoreRule}
    /\ \A c \in ListKinds : Rules[c] = {EmptyRule(c), FullRule(c)}
    /\ Rules["value"] = {UnitRule(k) : k \in ListKinds \cup AtomKinds}
  <1>1. Nonterminals = {"START", "value_list", "value"} \cup ListKinds
    BY DEF Nonterminals, Rules, ListKinds
  <1>2. Rules["START"] = {StartRule} /\ Rules["value_list"] = {OneRule, MoreRule}
    BY DEF Rules, StartRule, OneRule, MoreRule
  <1>3. \A c \in ListKinds : Rules[c] = {EmptyRule(c), FullRule(c)}
    <2>1. Rules["list"] = {EmptyRule("list"), FullRule("list")}
      BY DEF Rules, EmptyRule, FullRule, Opening, Closing
    <2>2. Rules["bracket_list"] = {EmptyRule("bracket_list"), FullRule("bracket_list")}
      BY DEF Rules, EmptyRule, FullRule, Opening, Closing
    <2>3. Rules["curly_list"] = {EmptyRule("curly_list"), FullRule("curly_list")}
      BY DEF Rules, EmptyRule, FullRule, Opening, Closing
    <2>4. QED BY <2>1, <2>2, <2>3 DEF ListKinds
  <1>4. Rules["value"] = {UnitRule(k) : k \in ListKinds \cup AtomKinds}
    <2>1. Rules["value"] = {<<"operator">>, <<"number">>, <<"symbol">>, <<"string">>,
                            <<"single_quote_string">>, <<"list">>, <<"curly_list">>,
                            <<"bracket_list">>}
      BY DEF Rules
    <2>2. \A x : x \in Rules["value"] <=> \E k \in ListKinds \cup AtomKinds : x = UnitRule(k)
      BY <2>1, Zenon DEF ListKinds, AtomKinds, UnitRule
    <2>3. QED BY <2>2, Zenon
  <1>5. QED BY <1>1, <1>2, <1>3, <1>4

LEMMA RuleSymbols ==
    /\ Len(StartRule) = 2 /\ StartRule[1] = "value_list" /\ StartRule[2] = EOF
    /\ Len(OneRule) = 1 /\ OneRule[1] = "value"
    /\ Len(MoreRule) = 2 /\ MoreRule[1] = "value_list" /\ MoreRule[2] = "value"
    /\ \A k : Len(UnitRule(k)) = 1 /\ UnitRule(k)[1] = k
    /\ \A c : /\ Len(EmptyRule(c)) = 2
              /\ EmptyRule(c)[1] = Opening(c) /\ EmptyRule(c)[2] = Closing(c)
              /\ Len(FullRule(c)) = 3 /\ FullRule(c)[1] = Opening(c)
              /\ FullRule(c)[2] = "value_list" /\ FullRule(c)[3] = Closing(c)
  BY DEF StartRule, OneRule, MoreRule, UnitRule, EmptyRule, FullRule

LEMMA BracketsOf ==
    ASSUME NEW c \in ListKinds
    PROVE  /\ Opening(c) \in Opens /\ Opening(c) \notin DOMAIN Partner
           /\ Closing(c) \in DOMAIN Partner /\ Closing(c) \notin Opens
           /\ Partner[Closing(c)] = Opening(c)
           /\ Opening(c) \notin Nonterminals \cup {EOF} /\ Closing(c) \notin Nonterminals \cup {EOF}
           /\ \A d \in ListKinds : Opening(d) = Opening(c) => d = c
  BY RulesAre DEF ListKinds, Opening, Closing, Opens, Partner, EOF

LEMMA KindsOfTokens ==
    ASSUME NEW t \in Tokens
    PROVE  \/ t \in AtomKinds /\ t \notin Opens /\ t \notin DOMAIN Partner /\ t # EOF
           \/ \E c \in ListKinds : t = Opening(c) \/ t = Closing(c)
           \/ t = EOF /\ t \notin Opens /\ t \notin DOMAIN Partner
  <1>1. CASE t \in Atoms /\ <<t>> \in Rules.value /\ t \notin Nonterminals
    <2>1. PICK k \in ListKinds \cup AtomKinds : <<t>> = UnitRule(k)
      BY <1>1, RulesAre
    <2>2. t = k
      BY <2>1 DEF UnitRule
    <2>3. QED BY <1>1, <2>1, <2>2, RulesAre DEF AtomKinds, Opens, Partner, EOF
  <1>2. CASE t \in Brackets
    BY <1>2 DEF Brackets, ListKinds, Opening, Closing
  <1>3. CASE t = EOF
    BY <1>3 DEF Opens, Partner, EOF
  <1>4. QED BY <1>1, <1>2, <1>3 DEF Tokens

-----------------------------------------------------------------------------
(* Items. *)

Items == [lhs : Nonterminals, rhs : UNION {Rules[l] : l \in Nonterminals}, pos : Nat, parent : Nat]

LEMMA ItemIs ==
    ASSUME NEW l, NEW r, NEW p, NEW q
    PROVE  /\ Item(l, r, p, q).lhs = l /\ Item(l, r, p, q).rhs = r
           /\ Item(l, r, p, q).pos = p /\ Item(l, r, p, q).parent = q
           /\ Advance(Item(l, r, p, q)) = Item(l, r, p + 1, q)
  BY DEF Item, Advance

LEMMA AdvanceIs ==
    ASSUME NEW x \in Items
    PROVE  /\ Advance(x) \in Items
           /\ Advance(x).lhs = x.lhs /\ Advance(x).rhs = x.rhs
           /\ Advance(x).pos = x.pos + 1 /\ Advance(x).parent = x.parent
           /\ x = Item(x.lhs, x.rhs, x.pos, x.parent)
  BY DEF Items, Advance, Item

LEMMA NewItem ==
    ASSUME NEW l \in Nonterminals, NEW r \in Rules[l], NEW p \in Nat, NEW q \in Nat
    PROVE  Item(l, r, p, q) \in Items
  BY DEF Items, Item

\* The right sides of an item, and what can come next.
Form(x) ==
    \/ x.lhs = "START" /\ x.rhs = StartRule
    \/ x.lhs = "value_list" /\ x.rhs \in {OneRule, MoreRule}
    \/ x.lhs = "value" /\ \E k \in ListKinds \cup AtomKinds : x.rhs = UnitRule(k)
    \/ x.lhs \in ListKinds /\ x.rhs \in {EmptyRule(x.lhs), FullRule(x.lhs)}

LEMMA Forms ==
    ASSUME NEW x \in Items, x.rhs \in Rules[x.lhs]
    PROVE  Form(x)
  <1>1. x.lhs \in Nonterminals
    BY DEF Items
  <1>2. QED BY <1>1, RulesAre DEF Form

LEMMA NextSymIs ==
    ASSUME NEW x \in Items, Form(x), ~Complete(x), x.pos <= Len(x.rhs)
    PROVE  \/ /\ x.lhs = "START"
              /\ \/ x.pos = 0 /\ NextSym(x) = "value_list"
                 \/ x.pos = 1 /\ NextSym(x) = EOF
           \/ /\ x.lhs = "value_list"
              /\ \/ x.pos = 0 /\ NextSym(x) \in {"value", "value_list"}
                 \/ x.pos = 1 /\ NextSym(x) = "value"
           \/ x.lhs = "value" /\ x.pos = 0 /\ NextSym(x) \in ListKinds \cup AtomKinds
           \/ /\ x.lhs \in ListKinds
              /\ \/ x.pos = 0 /\ NextSym(x) = Opening(x.lhs)
                 \/ x.pos + 1 < Len(x.rhs) /\ x.pos = 1 /\ NextSym(x) = "value_list"
                 \/ x.pos + 1 = Len(x.rhs) /\ x.pos > 0 /\ NextSym(x) = Closing(x.lhs)
  <1>1. x.pos \in Nat
    BY DEF Items
  <1> DEFINE r == x.rhs
             p == x.pos
  <1>2. p \in Nat /\ (Len(r) \in Nat => p + 1 <= Len(r)) /\ NextSym(x) = r[p + 1]
    BY <1>1 DEF Complete, NextSym
  <1> HIDE DEF r, p
  <1>3. ASSUME Len(r) = 1 PROVE p = 0
    BY <1>2, <1>3
  <1>4. ASSUME Len(r) = 2 PROVE p \in {0, 1}
    BY <1>2, <1>4
  <1>5. ASSUME Len(r) = 3 PROVE p \in {0, 1, 2}
    BY <1>2, <1>5
  <1>6. CASE x.lhs = "START" /\ r = StartRule
    BY <1>2, <1>4, <1>6, RuleSymbols DEF p
  <1>7. CASE x.lhs = "value_list" /\ r = OneRule
    BY <1>2, <1>3, <1>7, RuleSymbols DEF p
  <1>8. CASE x.lhs = "value_list" /\ r = MoreRule
    BY <1>2, <1>4, <1>8, RuleSymbols DEF p
  <1>9. CASE x.lhs = "value" /\ \E k \in ListKinds \cup AtomKinds : r = UnitRule(k)
    BY <1>2, <1>3, <1>9, RuleSymbols DEF p
  <1>10. CASE x.lhs \in ListKinds /\ r = EmptyRule(x.lhs)
    <2>1. Len(r) = 2 /\ r[1] = Opening(x.lhs) /\ r[2] = Closing(x.lhs)
      BY <1>10, RuleSymbols
    <2>2. \/ p = 0 /\ NextSym(x) = Opening(x.lhs)
          \/ p = 1 /\ NextSym(x) = Closing(x.lhs)
      BY <1>2, <1>4, <2>1
    <2>3. QED BY <1>10, <2>1, <2>2 DEF p, r
  <1>11. CASE x.lhs \in ListKinds /\ r = FullRule(x.lhs)
    <2>1. /\ Len(r) = 3 /\ r[1] = Opening(x.lhs) /\ r[2] = "value_list"
          /\ r[3] = Closing(x.lhs)
      BY <1>11, RuleSymbols
    <2>2. \/ p = 0 /\ NextSym(x) = Opening(x.lhs)
          \/ p = 1 /\ NextSym(x) = "value_list"
          \/ p = 2 /\ NextSym(x) = Closing(x.lhs)
      BY <1>2, <1>5, <2>1
    <2>3. QED BY <1>11, <2>1, <2>2 DEF p, r
  <1>12. QED BY <1>6, <1>7, <1>8, <1>9, <1>10, <1>11 DEF Form, r

-----------------------------------------------------------------------------
(* The invariant. *)

State(j) == states[j + 1]
In(j) == inside[j + 1]
Last == Len(states) - 1        \* the last state, the present one while it is walked

\* How much of what there is.
LengthInv ==
    /\ tokens \in Seq(Tokens) /\ states \in Seq(SUBSET Items) /\ inside \in Seq(Nat)
    /\ pending \in SUBSET Items /\ next \in SUBSET Items
    /\ outcome \in {"reading", "walking", "code", "error", "IndexError"}
    /\ outcome = "reading" => Len(states) = Len(tokens) + 1 /\ Matched
    /\ outcome # "reading" =>
          /\ Len(states) = Len(tokens) /\ Len(states) > 0
          /\ Len(inside) = Len(tokens) \/ Matched
    /\ \A j \in 1..Len(tokens) : tokens[j] = EOF => outcome # "reading" /\ j = Len(tokens)

\* What is in which bracket.
InsideOf(j, in) ==
    LET i == In(j - 1) IN
    IF tokens[j] \in Opens THEN in = j
    ELSE IF tokens[j] \in DOMAIN Partner
    THEN i # 0 /\ tokens[i] = Partner[tokens[j]] /\ in = In(i - 1)
    ELSE in = i /\ (tokens[j] = EOF => i = 0 /\ j > 1)

InsideInv ==
    /\ In(0) = 0
    /\ \A j \in 1..Len(inside) - 1 : InsideOf(j, In(j))
    /\ \A j \in 0..Len(inside) - 1 : In(j) <= j /\ (In(j) # 0 => tokens[In(j)] \in Opens)
    /\ outcome # "reading" =>
          (Matched <=> \E i \in Nat : InsideOf(Len(tokens), i))

\* An item of state j says that the tokens from its parent on match, up to the
\* bracket it has begun with.
Sound(x, j) ==
    /\ x.rhs \in Rules[x.lhs] /\ x.pos <= Len(x.rhs) /\ x.parent <= j
    /\ x.pos = 0 => x.parent = j
    /\ x.pos > 0 => x.parent < j
    /\ x.lhs = "START" => x.parent = 0 /\ x.pos <= 1
    /\ x.pos > 0 /\ (x.lhs \notin ListKinds \/ Complete(x)) => In(j) = In(x.parent)
    /\ x.pos > 0 /\ x.lhs \in ListKinds => tokens[x.parent + 1] = Opening(x.lhs)
    /\ x.pos > 0 /\ x.lhs \in ListKinds /\ ~Complete(x) => In(j) = x.parent + 1

SoundInv ==
    /\ \A j \in 0..Last : \A x \in State(j) : Sound(x, j)
    /\ outcome = "walking" =>
          /\ pending \subseteq State(Last)
          /\ next # {} => Matched
          /\ Token = EOF => next \subseteq {StartItem(2)}
          /\ Token # EOF => \A x \in next : Sound(x, Len(tokens))

\* What the loop has come to in state j is done, and gone on with in nexts.
Expects(sym, rhs, token) == rhs \in Rules[sym] /\ (rhs[1] \in Nonterminals \/ rhs[1] = token)
Closed(j, items, nexts) ==
    \A x \in items :
        /\ Complete(x) =>
              \A p \in State(x.parent) :
                  ~Complete(p) /\ NextSym(p) = x.lhs => Advance(p) \in State(j)
        /\ ~Complete(x) /\ NextSym(x) \in Nonterminals =>
              \A rhs : Expects(NextSym(x), rhs, tokens[j + 1]) =>
                  Item(NextSym(x), rhs, 0, j) \in State(j)
        /\ ~Complete(x) /\ NextSym(x) = tokens[j + 1] => Advance(x) \in nexts

\* The item of the innermost open bracket, or of the whole, at pos.
Whole(f, pos, x) ==
    \/ f = 0 /\ x = StartItem(pos - 1)
    \/ f # 0 /\ \E c \in ListKinds : tokens[f] = Opening(c) /\ x = Item(c, FullRule(c), pos, f - 1)
Empty(f, x) ==
    f # 0 /\ \E c \in ListKinds : tokens[f] = Opening(c) /\ x = Item(c, EmptyRule(c), 1, f - 1)

\* What a finished state j has for the next tokens.
Ready(j) ==
    LET f == In(j) IN
    /\ j = f =>
          /\ \A x : Whole(f, 1, x) \/ Empty(f, x) => x \in State(j)
          /\ Item("value_list", OneRule, 0, f) \in State(j)
          /\ Item("value_list", MoreRule, 0, f) \in State(j)
    /\ j # f =>
          /\ \A x : Whole(f, 2, x) => x \in State(j)
          /\ Item("value_list", MoreRule, 1, f) \in State(j)
    /\ \A c \in ListKinds : tokens[j + 1] = Opening(c) =>
          Item("value", UnitRule(c), 0, j) \in State(j)

\* What the token before state j has put into it.
Kernel(j, items) ==
    /\ j = 0 => StartItem(0) \in items
    /\ j > 0 =>
          /\ tokens[j] \in Opens => \A x : Whole(j, 1, x) \/ Empty(j, x) => x \in items
          /\ tokens[j] \in AtomKinds => Item("value", UnitRule(tokens[j]), 1, j - 1) \in items
          /\ tokens[j] \in DOMAIN Partner =>
                \E c \in ListKinds : \E rhs \in Rules[c] :
                    /\ In(j - 1) # 0 /\ tokens[In(j - 1)] = Opening(c)
                    /\ Item(c, rhs, Len(rhs), In(j - 1) - 1) \in items

ChartInv ==
    /\ \A j \in 0..Last - 1 : Ready(j)
    /\ outcome \in {"reading", "walking"} => Kernel(Last, State(Last))
    /\ outcome = "walking" => Closed(Last, State(Last) \ pending, next)

EarleyInv == LengthInv /\ InsideInv /\ SoundInv /\ ChartInv /\ ParserAcceptsMatched

-----------------------------------------------------------------------------
(* What a state says is sound. *)

LEMMA TokenIsTerminal == ASSUME NEW t \in Tokens PROVE t \notin Nonterminals
  BY KindsOfTokens, RulesAre, BracketsOf DEF AtomKinds, ListKinds, EOF

LEMMA Basics ==
    ASSUME LengthInv
    PROVE  /\ Len(tokens) \in Nat /\ Len(states) \in Nat /\ Len(inside) \in Nat
           /\ Last \in Int /\ Last >= 0
           /\ \A j \in 0..Last : State(j) \subseteq Items
           /\ \A j \in 1..Len(tokens) : tokens[j] \in Tokens
           /\ \A j \in 0..Len(inside) - 1 : In(j) \in Nat
           /\ outcome = "reading" => Last = Len(tokens)
           /\ outcome # "reading" => /\ Last = Len(tokens) - 1 /\ Last = At
                                     /\ Token = tokens[Last + 1] /\ Token \in Tokens
           /\ Len(inside) = Last + 1 \/ Len(inside) = Last + 2
           /\ Matched => Len(inside) = Len(tokens) + 1
  <1>1. Len(tokens) \in Nat /\ Len(states) \in Nat /\ Len(inside) \in Nat
    BY DEF LengthInv
  <1>2. Len(states) > 0
    BY <1>1 DEF LengthInv
  <1>3. /\ \A j \in 1..Len(states) : states[j] \in SUBSET Items
        /\ \A j \in 1..Len(tokens) : tokens[j] \in Tokens
        /\ \A j \in 1..Len(inside) : inside[j] \in Nat
    BY DEF LengthInv
  <1>4. Last \in Int /\ Last >= 0 /\ Last = Len(states) - 1
    BY <1>1, <1>2 DEF Last
  <1>5. \A j \in 0..Last : State(j) \subseteq Items
    BY <1>1, <1>3, <1>4 DEF State
  <1>6. \A j \in 0..Len(inside) - 1 : In(j) \in Nat
    BY <1>1, <1>3 DEF In
  <1>7. outcome # "reading" => /\ Last = Len(tokens) - 1 /\ Last = At
                               /\ Token = tokens[Last + 1] /\ Token \in Tokens
    BY <1>1, <1>2, <1>3, <1>4 DEF LengthInv, At, Token
  <1>8. outcome = "reading" => Last = Len(tokens)
    BY <1>1, <1>4 DEF LengthInv
  <1>9. Len(inside) = Last + 1 \/ Len(inside) = Last + 2
    BY <1>1, <1>4 DEF LengthInv, Matched
  <1>10. QED BY <1>1, <1>3, <1>4, <1>5, <1>6, <1>7, <1>8, <1>9 DEF Matched

\* A completed item has an item that waits for it where it began.
LEMMA CompletedSound ==
    ASSUME NEW i \in Nat, NEW d \in Items, Sound(d, i), Complete(d),
           NEW p \in Items, Sound(p, d.parent), ~Complete(p), NextSym(p) = d.lhs
    PROVE  Sound(Advance(p), i)
  <1> DEFINE q == d.parent
  <1>1. Form(d) /\ Form(p)
    BY Forms DEF Sound
  <1>2. /\ d.pos \in Nat /\ q \in Nat /\ p.pos \in Nat /\ p.parent \in Nat
        /\ d.lhs \in Nonterminals /\ p.lhs \in Nonterminals
    BY DEF Items
  <1>3. d.pos > 0 /\ d.lhs # "START"
    <2>1. Len(d.rhs) > 0 /\ (d.lhs = "START" => Len(d.rhs) = 2)
      BY <1>1, RuleSymbols, RulesAre DEF Form, ListKinds
    <2>2. d.pos = Len(d.rhs)
      BY DEF Complete
    <2>3. d.lhs = "START" => d.pos <= 1
      BY DEF Sound
    <2> DEFINE m == Len(d.rhs)
               k == d.pos
    <2>4. /\ k \in Nat /\ m > 0 /\ k = m
          /\ d.lhs = "START" => m = 2 /\ k <= 1
      BY <1>2, <2>1, <2>2, <2>3
    <2> HIDE DEF m, k
    <2>5. k > 0 /\ d.lhs # "START"
      BY <2>4
    <2>6. QED BY <2>5 DEF k
  <1>4. q < i /\ In(i) = In(q)
    BY <1>3 DEF Sound
  <1>5. Len(p.rhs) \in Nat /\ p.pos + 1 <= Len(p.rhs)
    <2>1. Len(p.rhs) \in Nat
      BY <1>1, RuleSymbols DEF Form
    <2>2. QED BY <1>2, <2>1 DEF Sound, Complete
  <1> DEFINE a == Advance(p)
  <1>6. /\ a.lhs = p.lhs /\ a.rhs = p.rhs /\ a.pos = p.pos + 1 /\ a.parent = p.parent
    BY AdvanceIs
  <1>7. p.parent <= q /\ p.parent < i /\ (p.pos = 0 => p.parent = q)
    BY <1>2, <1>4 DEF Sound
  <1>8. \/ p.lhs = "START" /\ p.pos = 0
        \/ p.lhs \in {"value_list", "value"}
        \/ p.lhs \in ListKinds /\ p.pos = 1 /\ p.pos + 1 < Len(p.rhs)
    <2>1. d.lhs \notin AtomKinds /\ d.lhs # EOF
          /\ \A c \in ListKinds : d.lhs # Opening(c) /\ d.lhs # Closing(c)
      BY <1>2, RulesAre, BracketsOf DEF AtomKinds, ListKinds, EOF
    <2>2. QED BY <1>1, <2>1, NextSymIs DEF Sound
  <1>9. p.lhs \notin ListKinds => In(i) = In(p.parent)
    BY <1>2, <1>4, <1>7 DEF Sound
  <1>10. p.lhs \in ListKinds =>
           /\ ~Complete(a) /\ tokens[p.parent + 1] = Opening(p.lhs) /\ In(i) = p.parent + 1
    <2>1. SUFFICES ASSUME p.lhs \in ListKinds PROVE
           /\ ~Complete(a) /\ tokens[p.parent + 1] = Opening(p.lhs) /\ In(i) = p.parent + 1
      OBVIOUS
    <2>2. p.pos = 1 /\ p.pos + 1 < Len(p.rhs)
      BY <1>8, <2>1 DEF ListKinds
    <2>3. tokens[p.parent + 1] = Opening(p.lhs) /\ In(q) = p.parent + 1
      BY <2>1, <2>2 DEF Sound
    <2>4. a.pos # Len(a.rhs)
      <3> DEFINE m == Len(p.rhs)
                 k == p.pos
      <3>1. k = 1 /\ k + 1 < m /\ m \in Nat /\ Len(a.rhs) = m /\ a.pos = k + 1
        BY <1>5, <1>6, <2>2
      <3> HIDE DEF a, m, k
      <3>2. QED BY <3>1
    <2>5. QED BY <1>4, <2>3, <2>4 DEF Complete
  <1>11. p.lhs = "START" => p.parent = 0 /\ a.pos <= 1
    <2>1. p.lhs = "START" => p.pos = 0
      BY <1>8 DEF ListKinds
    <2>2. QED BY <1>6, <2>1 DEF Sound
  <1> HIDE DEF a
  <1>12. QED
    BY <1>2, <1>5, <1>6, <1>7, <1>9, <1>10, <1>11 DEF Sound, a

\* An item that goes on with the token.
LEMMA ScannedSound ==
    ASSUME LengthInv, InsideInv, outcome = "walking",
           NEW x \in Items, Sound(x, Last), ~Complete(x), NextSym(x) = Token
    PROVE  /\ Matched
           /\ Token = EOF => Advance(x) = StartItem(2)
           /\ Token # EOF => Sound(Advance(x), Len(tokens))
  <1> DEFINE n == Len(tokens)
             a == Advance(x)
  <1>1. /\ n \in Nat /\ Last = n - 1 /\ n > 0 /\ Token = tokens[n] /\ Token \in Tokens
        /\ In(Last) \in Nat
    BY Basics DEF LengthInv
  <1>2. /\ Form(x) /\ x.pos \in Nat /\ x.parent \in Nat /\ x.parent <= Last
        /\ a.lhs = x.lhs /\ a.rhs = x.rhs /\ a.pos = x.pos + 1 /\ a.parent = x.parent
        /\ x = Item(x.lhs, x.rhs, x.pos, x.parent)
    BY Forms, AdvanceIs DEF Sound, Items
  <1>3. Len(x.rhs) \in Nat /\ a.pos <= Len(x.rhs) /\ x.rhs \in Rules[x.lhs]
    <2>1. Len(x.rhs) \in Nat
      BY <1>2, RuleSymbols DEF Form
    <2>2. QED BY <1>2, <2>1 DEF Sound, Complete
  <1>4. \/ x.lhs = "START" /\ x.pos = 1 /\ Token = EOF
        \/ x.lhs = "value" /\ x.pos = 0 /\ Token \in AtomKinds
        \/ x.lhs \in ListKinds /\ x.pos = 0 /\ Token = Opening(x.lhs)
        \/ /\ x.lhs \in ListKinds /\ x.pos + 1 = Len(x.rhs) /\ x.pos > 0
           /\ Token = Closing(x.lhs)
    <2>1. Token \notin {"value", "value_list"} \cup ListKinds
      BY <1>1, TokenIsTerminal, RulesAre
    <2>2. QED BY <1>2, <2>1, NextSymIs DEF Sound
  <1>5. ASSUME NEW i \in Nat, InsideOf(n, i) PROVE Matched /\ InsideOf(n, In(n))
    BY <1>1, <1>5, Basics DEF InsideInv
  <1>6. InsideOf(n, In(n)) =>
          /\ Token \in Opens => In(n) = n
          /\ Token \notin Opens /\ Token \in DOMAIN Partner => In(n) = In(In(Last) - 1)
          /\ Token \notin Opens /\ Token \notin DOMAIN Partner => In(n) = In(Last)
    BY <1>1 DEF InsideOf
  <1> HIDE DEF a
  <1>7. CASE x.lhs = "START" /\ x.pos = 1 /\ Token = EOF
    <2>1. x.parent = 0 /\ In(Last) = In(0) /\ In(0) = 0 /\ 0 < Last
      BY <1>7 DEF Sound, InsideInv, ListKinds
    <2>2. InsideOf(n, 0)
      BY <1>1, <1>7, <2>1 DEF InsideOf, Opens, Partner, EOF
    <2>3. x.rhs = StartRule
      BY <1>3, <1>7, RulesAre
    <2>4. a = StartItem(2)
      BY <1>2, <1>7, <2>1, <2>3, ItemIs DEF a, StartItem, StartRule
    <2>5. QED BY <1>5, <1>7, <2>2, <2>4 DEF a
  <1>8. CASE x.lhs = "value" /\ x.pos = 0 /\ Token \in AtomKinds
    <2>1. Token \notin Opens /\ Token \notin DOMAIN Partner /\ Token # EOF
      BY <1>8 DEF AtomKinds, Opens, Partner, EOF
    <2>2. InsideOf(n, In(Last))
      BY <1>1, <2>1 DEF InsideOf
    <2>3. Matched /\ In(n) = In(Last)
      BY <1>1, <1>5, <1>6, <2>1, <2>2
    <2>4. x.parent = Last
      BY <1>8 DEF Sound
    <2>5. Sound(a, n)
      BY <1>1, <1>2, <1>3, <1>8, <2>3, <2>4 DEF Sound, ListKinds
    <2>6. QED BY <2>1, <2>3, <2>5 DEF a
  <1>9. CASE x.lhs \in ListKinds /\ x.pos = 0 /\ Token = Opening(x.lhs)
    <2>1. Token \in Opens /\ Token # EOF /\ x.lhs # "START"
      BY <1>9, BracketsOf DEF ListKinds
    <2>2. InsideOf(n, n)
      BY <1>1, <2>1 DEF InsideOf
    <2>3. Matched /\ In(n) = n
      BY <1>1, <1>5, <1>6, <2>1, <2>2
    <2>4. x.parent = Last
      BY <1>9 DEF Sound
    <2>5. ~Complete(a)
      BY <1>2, <1>9, RuleSymbols, RulesAre, <1>3 DEF Complete
    <2>6. a.pos = 1 /\ a.parent = n - 1 /\ tokens[a.parent + 1] = Opening(a.lhs)
      <3>1. a.pos = 1 /\ a.parent = Last /\ a.lhs = x.lhs
        BY <1>2, <1>9, <2>4
      <3> HIDE DEF n
      <3>2. a.parent = n - 1 /\ a.parent + 1 = n
        BY <1>1, <3>1
      <3>3. QED BY <1>1, <1>9, <3>1, <3>2
    <2>7. Sound(a, n)
      BY <1>1, <1>2, <1>3, <1>9, <2>1, <2>3, <2>5, <2>6 DEF Sound
    <2>8. QED BY <2>1, <2>3, <2>7 DEF a
  <1>10. CASE /\ x.lhs \in ListKinds /\ x.pos + 1 = Len(x.rhs) /\ x.pos > 0
              /\ Token = Closing(x.lhs)
    <2>1. /\ Token \notin Opens /\ Token \in DOMAIN Partner /\ Token # EOF /\ x.lhs # "START"
          /\ Partner[Token] = Opening(x.lhs)
      BY <1>10, BracketsOf DEF ListKinds
    <2>2. In(Last) = x.parent + 1 /\ tokens[x.parent + 1] = Opening(x.lhs) /\ x.parent < Last
      BY <1>10 DEF Sound
    <2>3. In(x.parent) \in Nat
      BY <1>1, <1>2, <2>2, Basics
    <2>4. InsideOf(n, In(x.parent))
      BY <1>1, <1>2, <2>1, <2>2 DEF InsideOf
    <2>5. Matched /\ In(n) = In(x.parent)
      BY <1>1, <1>2, <1>5, <1>6, <2>1, <2>2, <2>3, <2>4
    <2>6. Complete(a)
      BY <1>2, <1>10 DEF Complete
    <2>7. Sound(a, n)
      BY <1>1, <1>2, <1>3, <1>10, <2>1, <2>2, <2>5, <2>6 DEF Sound
    <2>8. QED BY <2>1, <2>5, <2>7 DEF a
  <1>11. QED BY <1>4, <1>7, <1>8, <1>9, <1>10

-----------------------------------------------------------------------------
(* What a finished state holds. *)

LEMMA ClosedPredicts ==
    ASSUME NEW i, Closed(i, State(i), next),
           NEW l, NEW r, NEW p, NEW q, Item(l, r, p, q) \in State(i),
           p # Len(r), r[p + 1] \in Nonterminals,
           NEW rhs \in Rules[r[p + 1]], rhs[1] \in Nonterminals \/ rhs[1] = tokens[i + 1]
    PROVE  Item(r[p + 1], rhs, 0, i) \in State(i)
  <1> DEFINE x == Item(l, r, p, q)
  <1>1. ~Complete(x) /\ NextSym(x) = r[p + 1]
    BY ItemIs DEF Complete, NextSym
  <1>2. Expects(NextSym(x), rhs, tokens[i + 1])
    BY <1>1 DEF Expects
  <1> HIDE DEF x
  <1>3. Item(NextSym(x), rhs, 0, i) \in State(i)
    BY <1>1, <1>2 DEF Closed, x
  <1>4. QED BY <1>1, <1>3

LEMMA ClosedCompletes ==
    ASSUME NEW i, Closed(i, State(i), next),
           NEW l, NEW r, NEW q, Item(l, r, Len(r), q) \in State(i),
           NEW k, NEW s, NEW p, NEW m, Item(k, s, p, m) \in State(q),
           p # Len(s), s[p + 1] = l
    PROVE  Item(k, s, p + 1, m) \in State(i)
  <1> DEFINE x == Item(l, r, Len(r), q)
             y == Item(k, s, p, m)
  <1>1. Complete(x) /\ x.parent = q /\ x.lhs = l
    BY ItemIs DEF Complete
  <1>2. ~Complete(y) /\ NextSym(y) = l /\ Advance(y) = Item(k, s, p + 1, m)
    BY ItemIs DEF Complete, NextSym
  <1>3. x \in State(i) /\ y \in State(q)
    OBVIOUS
  <1> HIDE DEF x, y
  <1>4. \A z \in State(x.parent) : ~Complete(z) /\ NextSym(z) = x.lhs => Advance(z) \in State(i)
    BY <1>1, <1>3 DEF Closed
  <1>5. QED BY <1>1, <1>2, <1>3, <1>4

LEMMA ClosedScans ==
    ASSUME NEW i, Closed(i, State(i), next),
           NEW l, NEW r, NEW p, NEW q, Item(l, r, p, q) \in State(i),
           p # Len(r), r[p + 1] = tokens[i + 1]
    PROVE  Item(l, r, p + 1, q) \in next
  <1> DEFINE x == Item(l, r, p, q)
  <1>1. ~Complete(x) /\ NextSym(x) = tokens[i + 1] /\ Advance(x) = Item(l, r, p + 1, q)
    BY ItemIs DEF Complete, NextSym
  <1>2. x \in State(i)
    OBVIOUS
  <1> HIDE DEF x
  <1>3. QED BY <1>1, <1>2 DEF Closed

\* A state after the opening of what it is in.
LEMMA InsideItself ==
    ASSUME LengthInv, InsideInv, NEW j \in 0..Last
    PROVE  /\ In(j) \in 0..j /\ In(In(j)) = In(j)
           /\ In(j) # 0 => tokens[In(j)] \in Opens
           /\ j > 0 => InsideOf(j, In(j))
  <1>1. Last \in Nat /\ Len(inside) \in Nat /\ Last <= Len(inside) - 1
    BY Basics
  <1> DEFINE top == Len(inside) - 1
  <1>2. top \in Nat /\ Last <= top /\ j \in 0..top
    BY <1>1
  <1>3. /\ In(0) = 0
        /\ \A i \in 1..top : InsideOf(i, In(i))
        /\ \A i \in 0..top : In(i) \in Nat /\ In(i) <= i /\ (In(i) # 0 => tokens[In(i)] \in Opens)
    BY Basics DEF InsideInv
  <1> HIDE DEF top
  <1>4. In(j) \in 0..j /\ (In(j) # 0 => tokens[In(j)] \in Opens)
    BY <1>2, <1>3
  <1>5. j > 0 => InsideOf(j, In(j))
    BY <1>2, <1>3
  <1>6. In(j) # 0 => InsideOf(In(j), In(In(j)))
    BY <1>2, <1>3, <1>4
  <1>7. In(In(j)) = In(j)
    BY <1>3, <1>4, <1>6 DEF InsideOf
  <1>8. QED BY <1>4, <1>5, <1>7

LEMMA OpensAre == ASSUME NEW t \in Opens PROVE \E c \in ListKinds : t = Opening(c)
  BY DEF Opens, ListKinds, Opening

\* A state after an opening bracket, or the first, goes on with a value.
LEMMA FrameIsReady ==
    ASSUME NEW i \in Nat, Closed(i, State(i), next), Kernel(i, State(i)),
           In(i) = i, i # 0 => tokens[i] \in Opens
    PROVE  /\ \A x : Whole(i, 1, x) \/ Empty(i, x) => x \in State(i)
           /\ Item("value_list", OneRule, 0, i) \in State(i)
           /\ Item("value_list", MoreRule, 0, i) \in State(i)
  <1>1. /\ OneRule \in Rules["value_list"] /\ MoreRule \in Rules["value_list"]
        /\ OneRule[1] \in Nonterminals /\ MoreRule[1] \in Nonterminals
        /\ "value_list" \in Nonterminals
    BY RulesAre, RuleSymbols
  <1>2. CASE i = 0
    <2>1. Item("START", StartRule, 0, 0) \in State(0)
      BY <1>2 DEF Kernel, StartItem, StartRule
    <2>2. 0 # Len(StartRule) /\ StartRule[0 + 1] = "value_list"
      BY RuleSymbols
    <2>3. /\ Item("value_list", OneRule, 0, 0) \in State(0)
          /\ Item("value_list", MoreRule, 0, 0) \in State(0)
      BY <1>1, <1>2, <2>1, <2>2, ClosedPredicts
    <2>4. \A x : Whole(0, 1, x) \/ Empty(0, x) => x = StartItem(0)
      BY DEF Whole, Empty
    <2>5. StartItem(0) \in State(0)
      BY <2>1 DEF StartItem, StartRule
    <2>6. QED BY <1>2, <2>3, <2>4, <2>5
  <1>3. CASE i # 0
    <2>1. i > 0 /\ tokens[i] \in Opens
      BY <1>3
    <2>2. \A x : Whole(i, 1, x) \/ Empty(i, x) => x \in State(i)
      BY <2>1 DEF Kernel
    <2>3. PICK c \in ListKinds : tokens[i] = Opening(c)
      BY <2>1, OpensAre
    <2>4. Whole(i, 1, Item(c, FullRule(c), 1, i - 1))
      BY <1>3, <2>3 DEF Whole
    <2>5. Item(c, FullRule(c), 1, i - 1) \in State(i)
      BY <2>2, <2>4
    <2>6. 1 # Len(FullRule(c)) /\ FullRule(c)[1 + 1] = "value_list"
      BY RuleSymbols
    <2>7. /\ Item("value_list", OneRule, 0, i) \in State(i)
          /\ Item("value_list", MoreRule, 0, i) \in State(i)
      BY <1>1, <2>5, <2>6, ClosedPredicts
    <2>8. QED BY <2>2, <2>7
  <1>4. QED BY <1>2, <1>3

\* A state after a list or an atom goes on with the value_list it is in.
LEMMA ListIsReady ==
    ASSUME LengthInv, NEW i \in Nat, NEW f \in Nat, NEW m \in Nat,
           Closed(i, State(i), next), In(m) = f, In(f) = f, Ready(m), Ready(f),
           NEW r \in Rules["value"], Item("value", r, Len(r), m) \in State(i)
    PROVE  /\ \A x : Whole(f, 2, x) => x \in State(i)
           /\ Item("value_list", MoreRule, 1, f) \in State(i)
  <1> USE RuleSymbols
  <1>1. \E s \in {OneRule, MoreRule} : Item("value_list", s, Len(s), f) \in State(i)
    <2>1. CASE m = f
      <3>1. Item("value_list", OneRule, 0, f) \in State(m)
        BY <2>1 DEF Ready
      <3>2. 0 # Len(OneRule) /\ OneRule[0 + 1] = "value" /\ Len(OneRule) = 0 + 1
        OBVIOUS
      <3>3. Item("value_list", OneRule, 0 + 1, f) \in State(i)
        BY <3>1, <3>2, ClosedCompletes
      <3>4. QED BY <3>2, <3>3
    <2>2. CASE m # f
      <3>1. Item("value_list", MoreRule, 1, f) \in State(m)
        BY <2>2 DEF Ready
      <3>2. 1 # Len(MoreRule) /\ MoreRule[1 + 1] = "value" /\ Len(MoreRule) = 1 + 1
        OBVIOUS
      <3>3. Item("value_list", MoreRule, 1 + 1, f) \in State(i)
        BY <3>1, <3>2, ClosedCompletes
      <3>4. QED BY <3>2, <3>3
    <2>3. QED BY <2>1, <2>2
  <1>2. PICK s \in {OneRule, MoreRule} : Item("value_list", s, Len(s), f) \in State(i)
    BY <1>1
  <1>3. Item("value_list", MoreRule, 1, f) \in State(i)
    <2>1. Item("value_list", MoreRule, 0, f) \in State(f)
      BY DEF Ready
    <2>2. 0 # Len(MoreRule) /\ MoreRule[0 + 1] = "value_list" /\ 0 + 1 = 1
      OBVIOUS
    <2>3. Item("value_list", MoreRule, 0 + 1, f) \in State(i)
      BY <1>2, <2>1, <2>2, ClosedCompletes
    <2>4. QED BY <2>2, <2>3
  <1>4. ASSUME NEW x, Whole(f, 2, x) PROVE x \in State(i)
    <2>1. CASE f = 0
      <3>1. x = Item("START", StartRule, 1, 0)
        BY <1>4, <2>1 DEF Whole, StartItem, StartRule
      <3>2. Whole(f, 1, Item("START", StartRule, 0, 0))
        BY <2>1 DEF Whole, StartItem, StartRule
      <3>3. Item("START", StartRule, 0, 0) \in State(f)
        BY <3>2 DEF Ready
      <3>4. 0 # Len(StartRule) /\ StartRule[0 + 1] = "value_list" /\ 0 + 1 = 1
        OBVIOUS
      <3>5. Item("START", StartRule, 0 + 1, 0) \in State(i)
        BY <1>2, <3>3, <3>4, ClosedCompletes
      <3>6. QED BY <3>1, <3>4, <3>5
    <2>2. CASE f # 0
      <3>1. PICK c \in ListKinds : tokens[f] = Opening(c) /\ x = Item(c, FullRule(c), 2, f - 1)
        BY <1>4, <2>2 DEF Whole
      <3>2. Whole(f, 1, Item(c, FullRule(c), 1, f - 1))
        BY <2>2, <3>1 DEF Whole
      <3>3. Item(c, FullRule(c), 1, f - 1) \in State(f)
        BY <3>2 DEF Ready
      <3>4. 1 # Len(FullRule(c)) /\ FullRule(c)[1 + 1] = "value_list" /\ 1 + 1 = 2
        OBVIOUS
      <3>5. Item(c, FullRule(c), 1 + 1, f - 1) \in State(i)
        BY <1>2, <3>3, <3>4, ClosedCompletes
      <3>6. QED BY <3>1, <3>4, <3>5
    <2>3. QED BY <2>1, <2>2
  <1>5. QED BY <1>3, <1>4

\* After a token that opens nothing a value has been completed.
LEMMA ValueBefore ==
    ASSUME LengthInv, InsideInv, outcome = "walking", Last # 0,
           \A j \in 0..Last - 1 : Ready(j),
           Closed(Last, State(Last), next), Kernel(Last, State(Last)), In(Last) # Last
    PROVE  \E m \in 0..Last - 1 : \E r \in Rules["value"] :
               In(m) = In(Last) /\ Item("value", r, Len(r), m) \in State(Last)
  <1> DEFINE i == Last
             f == In(i)
  <1>1. /\ i \in Nat /\ i > 0 /\ i - 1 \in 0..i /\ i = Len(tokens) - 1
        /\ tokens[i] \in Tokens /\ tokens[i] # EOF
    BY Basics DEF LengthInv
  <1>2. InsideOf(i, f) /\ f # i
    BY <1>1, InsideItself
  <1>3. tokens[i] \notin Opens
    BY <1>2 DEF InsideOf
  <1>4. Kernel(i, State(i)) /\ Closed(i, State(i), next) /\ \A j \in 0..i - 1 : Ready(j)
    OBVIOUS
  <1>5. /\ "value" \in Nonterminals
        /\ \A k \in ListKinds \cup AtomKinds :
               UnitRule(k) \in Rules["value"] /\ Len(UnitRule(k)) = 1 /\ UnitRule(k)[1] = k
    BY RulesAre, RuleSymbols
  <1> SUFFICES \E m \in 0..i - 1 : \E r \in Rules["value"] :
                   In(m) = f /\ Item("value", r, Len(r), m) \in State(i)
    OBVIOUS
  <1>6. CASE tokens[i] \in AtomKinds
    <2>1. tokens[i] \notin DOMAIN Partner
      BY <1>6 DEF AtomKinds, Partner
    <2>2. f = In(i - 1)
      BY <1>2, <1>3, <2>1 DEF InsideOf
    <2>3. Item("value", UnitRule(tokens[i]), 1, i - 1) \in State(i)
      BY <1>1, <1>4, <1>6 DEF Kernel
    <2> HIDE DEF i, f
    <2>4. PICK r \in Rules["value"] : r = UnitRule(tokens[i]) /\ Len(r) = 1
      BY <1>5, <1>6
    <2>5. i - 1 \in 0..i - 1 /\ Item("value", r, Len(r), i - 1) \in State(i)
      BY <1>1, <2>3, <2>4
    <2>6. QED BY <2>2, <2>5
  <1>7. CASE tokens[i] \in DOMAIN Partner
    <2> DEFINE g == In(i - 1)
    <2>1. g # 0 /\ f = In(g - 1)
      BY <1>2, <1>3, <1>7 DEF InsideOf
    <2>2. g \in 0..i - 1
      BY <1>1, InsideItself
    <2>3. PICK c \in ListKinds : \E rhs \in Rules[c] :
              tokens[g] = Opening(c) /\ Item(c, rhs, Len(rhs), g - 1) \in State(i)
      BY <1>1, <1>4, <1>7 DEF Kernel
    <2>4. PICK rhs \in Rules[c] : Item(c, rhs, Len(rhs), g - 1) \in State(i)
      BY <2>3
    <2> HIDE DEF i, f, g
    <2>5. g - 1 \in 0..i - 1 /\ (g - 1) + 1 = g
      BY <1>1, <2>1, <2>2
    <2>6. Item("value", UnitRule(c), 0, g - 1) \in State(g - 1)
      BY <1>4, <2>3, <2>5 DEF Ready
    <2>7. 0 # Len(UnitRule(c)) /\ UnitRule(c)[0 + 1] = c /\ Len(UnitRule(c)) = 0 + 1
      BY <1>5
    <2>8. Item("value", UnitRule(c), 0 + 1, g - 1) \in State(i)
      BY <1>4, <2>4, <2>6, <2>7, ClosedCompletes
    <2>9. QED BY <1>5, <2>1, <2>5, <2>7, <2>8
  <1>8. QED BY <1>1, <1>3, <1>6, <1>7, KindsOfTokens, BracketsOf

LEMMA StateIsReady ==
    ASSUME LengthInv, InsideInv, outcome = "walking",
           \A j \in 0..Last - 1 : Ready(j),
           Closed(Last, State(Last), next), Kernel(Last, State(Last))
    PROVE  /\ Ready(Last)
           /\ \A k \in ListKinds \cup AtomKinds :
                  k \in ListKinds \/ k = tokens[Last + 1] =>
                      Item("value", UnitRule(k), 0, Last) \in State(Last)
  <1> DEFINE i == Last
             f == In(i)
  <1>1. /\ i \in Nat /\ f \in 0..i /\ In(f) = f /\ (f # 0 => tokens[f] \in Opens)
        /\ Kernel(i, State(i)) /\ Closed(i, State(i), next) /\ \A j \in 0..i - 1 : Ready(j)
    BY Basics, InsideItself
  <1>2. f = i =>
          /\ \A x : Whole(f, 1, x) \/ Empty(f, x) => x \in State(i)
          /\ Item("value_list", OneRule, 0, f) \in State(i)
          /\ Item("value_list", MoreRule, 0, f) \in State(i)
    BY <1>1, FrameIsReady
  <1>3. f # i =>
          /\ \A x : Whole(f, 2, x) => x \in State(i)
          /\ Item("value_list", MoreRule, 1, f) \in State(i)
    <2>1. SUFFICES ASSUME f # i
                   PROVE  /\ \A x : Whole(f, 2, x) => x \in State(i)
                          /\ Item("value_list", MoreRule, 1, f) \in State(i)
      OBVIOUS
    <2>2. i # 0
      BY <1>1, <2>1
    <2>3. PICK m \in 0..i - 1 : \E r \in Rules["value"] :
              In(m) = f /\ Item("value", r, Len(r), m) \in State(i)
      BY <2>1, <2>2, ValueBefore
    <2>4. PICK r \in Rules["value"] : In(m) = f /\ Item("value", r, Len(r), m) \in State(i)
      BY <2>3
    <2> HIDE DEF i, f
    <2>5. f \in Nat /\ m \in Nat /\ Ready(m) /\ Ready(f)
      BY <1>1, <2>1, <2>3
    <2>6. QED BY <1>1, <2>4, <2>5, ListIsReady
  <1>4. ASSUME NEW k \in ListKinds \cup AtomKinds, k \in ListKinds \/ k = tokens[i + 1]
        PROVE  Item("value", UnitRule(k), 0, i) \in State(i)
    <2>1. /\ UnitRule(k) \in Rules["value"] /\ UnitRule(k)[1] = k /\ "value" \in Nonterminals
          /\ ListKinds \subseteq Nonterminals
      BY RulesAre, RuleSymbols
    <2>2. CASE f = i
      <3>1. Item("value_list", OneRule, 0, f) \in State(i)
        BY <1>2, <2>2
      <3>2. 0 # Len(OneRule) /\ OneRule[0 + 1] = "value"
        BY RuleSymbols
      <3> HIDE DEF i, f
      <3>3. QED BY <1>1, <1>4, <2>1, <3>1, <3>2, ClosedPredicts
    <2>3. CASE f # i
      <3>1. Item("value_list", MoreRule, 1, f) \in State(i)
        BY <1>3, <2>3
      <3>2. 1 # Len(MoreRule) /\ MoreRule[1 + 1] = "value"
        BY RuleSymbols
      <3> HIDE DEF i, f
      <3>3. QED BY <1>1, <1>4, <2>1, <3>1, <3>2, ClosedPredicts
    <2>4. QED BY <2>2, <2>3
  <1>5. Ready(i)
    <2>1. \A c \in ListKinds : tokens[i + 1] = Opening(c) => Item("value", UnitRule(c), 0, i) \in State(i)
      BY <1>4
    <2> DEFINE first == /\ \A x : Whole(f, 1, x) \/ Empty(f, x) => x \in State(i)
                        /\ Item("value_list", OneRule, 0, f) \in State(i)
                        /\ Item("value_list", MoreRule, 0, f) \in State(i)
               later == /\ \A x : Whole(f, 2, x) => x \in State(i)
                        /\ Item("value_list", MoreRule, 1, f) \in State(i)
    <2>2. (i = f => first) /\ (i # f => later)
      BY <1>2, <1>3
    <2>3. QED BY <2>1, <2>2, Zenon DEF Ready
  <1>6. QED BY <1>4, <1>5

\* A token that matches leads to the items it is to lead to.
LEMMA MatchedGoesOn ==
    ASSUME LengthInv, InsideInv, outcome = "walking", Matched,
           \A j \in 0..Last - 1 : Ready(j),
           Closed(Last, State(Last), next), Kernel(Last, State(Last))
    PROVE  /\ next # {}
           /\ Token = EOF => StartItem(2) \in next
           /\ Token # EOF => Kernel(Last + 1, next)
  <1> DEFINE i == Last
             f == In(i)
             n == i + 1
             t == tokens[n]
  <1>1. /\ i \in Nat /\ n = Len(tokens) /\ t = Token /\ t \in Tokens /\ f \in 0..i
        /\ Closed(i, State(i), next) /\ Ready(i) /\ n - 1 = i
        /\ \A k \in ListKinds \cup AtomKinds :
               k \in ListKinds \/ k = t => Item("value", UnitRule(k), 0, i) \in State(i)
    BY Basics, InsideItself, StateIsReady
  <1>2. \E in \in Nat : InsideOf(n, in)
    BY <1>1 DEF InsideInv
  <1>3. /\ t \in DOMAIN Partner /\ t \notin Opens => f # 0 /\ tokens[f] = Partner[t]
        /\ t \notin Opens /\ t \notin DOMAIN Partner /\ t = EOF => f = 0 /\ n > 1
    BY <1>1, <1>2 DEF InsideOf
  <1>4. \A c \in ListKinds : /\ c \in Nonterminals /\ Rules[c] = {EmptyRule(c), FullRule(c)}
    BY RulesAre
  <1> HIDE DEF i, f, n, t
  <1>5. ASSUME NEW c \in ListKinds, t = Opening(c)
        PROVE  next # {} /\ t # EOF /\ Kernel(n, next)
    <2>1. Item("value", UnitRule(c), 0, i) \in State(i)
      BY <1>1
    <2>2. 0 # Len(UnitRule(c)) /\ UnitRule(c)[0 + 1] = c
      BY RuleSymbols
    <2>3. ASSUME NEW r \in Rules[c] PROVE Item(c, r, 1, i) \in next
      <3>1. 0 # Len(r) /\ r[1] = Opening(c)
        BY <1>4, RuleSymbols
      <3>2. t = tokens[i + 1] /\ 0 + 1 = 1
        BY DEF t, n
      <3>3. Item(c, r, 0, i) \in State(i)
        BY <1>1, <1>4, <1>5, <2>1, <2>2, <3>1, <3>2, ClosedPredicts
      <3>4. Item(c, r, 0 + 1, i) \in next
        BY <1>1, <1>5, <3>1, <3>2, <3>3, ClosedScans
      <3>5. QED BY <3>2, <3>4
    <2>4. EmptyRule(c) \in Rules[c] /\ FullRule(c) \in Rules[c]
      BY <1>4
    <2>5. ASSUME NEW x, Whole(n, 1, x) \/ Empty(n, x) PROVE x \in next
      <3>1. tokens[n] = Opening(c) /\ n - 1 = i
        BY <1>1, <1>5 DEF t
      <3>2. n # 0
        BY <1>1 DEF n
      <3>3. \A d \in ListKinds : tokens[n] = Opening(d) => d = c
        BY <3>1, BracketsOf
      <3>4. x = Item(c, FullRule(c), 1, i) \/ x = Item(c, EmptyRule(c), 1, i)
        BY <2>5, <3>1, <3>2, <3>3 DEF Whole, Empty
      <3>5. QED BY <2>3, <2>4, <3>4
    <2>6. t \in Opens /\ t \notin DOMAIN Partner /\ t # EOF /\ t \notin AtomKinds
      BY <1>5, BracketsOf DEF Opens, AtomKinds
    <2>7. Kernel(n, next)
      BY <1>1, <2>5, <2>6 DEF Kernel, t, n
    <2>8. QED BY <2>3, <2>4, <2>6, <2>7
  <1>6. ASSUME t \in AtomKinds
        PROVE  next # {} /\ t # EOF /\ Kernel(n, next)
    <2>1. Item("value", UnitRule(t), 0, i) \in State(i)
      BY <1>1, <1>6
    <2>2. 0 # Len(UnitRule(t)) /\ UnitRule(t)[0 + 1] = t
      BY RuleSymbols
    <2>3. t = tokens[i + 1] /\ 0 + 1 = 1
      BY DEF t, n
    <2>4. Item("value", UnitRule(t), 0 + 1, i) \in next
      BY <1>1, <2>1, <2>2, <2>3, ClosedScans
    <2>5. t \notin Opens /\ t \notin DOMAIN Partner /\ t # EOF
      BY <1>6 DEF AtomKinds, Opens, Partner, EOF
    <2>6. Item("value", UnitRule(tokens[n]), 1, n - 1) \in next
      BY <1>1, <2>3, <2>4 DEF t
    <2>7. Kernel(n, next)
      BY <1>1, <2>5, <2>6 DEF Kernel, t, n
    <2>8. QED BY <2>4, <2>5, <2>7
  <1>7. ASSUME NEW c \in ListKinds, t = Closing(c)
        PROVE  next # {} /\ t # EOF /\ Kernel(n, next)
    <2>1. t \in DOMAIN Partner /\ t \notin Opens /\ Partner[t] = Opening(c) /\ t # EOF
          /\ t \notin AtomKinds
      BY <1>7, BracketsOf DEF Partner, AtomKinds
    <2>2. f # 0 /\ tokens[f] = Opening(c)
      BY <1>3, <2>1
    <2>3. t = tokens[i + 1] /\ 1 + 1 = 2 /\ 2 + 1 = 3
      BY DEF t, n
    <2>4. \E rhs \in Rules[c] : Item(c, rhs, Len(rhs), f - 1) \in next
      <3>1. CASE i = f
        <4>1. Empty(f, Item(c, EmptyRule(c), 1, f - 1))
          BY <2>2 DEF Empty
        <4>2. Item(c, EmptyRule(c), 1, f - 1) \in State(i)
          BY <1>1, <3>1, <4>1 DEF Ready, f
        <4>3. 1 # Len(EmptyRule(c)) /\ EmptyRule(c)[1 + 1] = t /\ Len(EmptyRule(c)) = 1 + 1
          BY <1>7, RuleSymbols
        <4>4. Item(c, EmptyRule(c), 1 + 1, f - 1) \in next
          BY <1>1, <2>3, <4>2, <4>3, ClosedScans
        <4>5. QED BY <1>4, <4>3, <4>4
      <3>2. CASE i # f
        <4>1. Whole(f, 2, Item(c, FullRule(c), 2, f - 1))
          BY <2>2 DEF Whole
        <4>2. Item(c, FullRule(c), 2, f - 1) \in State(i)
          BY <1>1, <3>2, <4>1 DEF Ready, f
        <4>3. 2 # Len(FullRule(c)) /\ FullRule(c)[2 + 1] = t /\ Len(FullRule(c)) = 2 + 1
          BY <1>7, RuleSymbols
        <4>4. Item(c, FullRule(c), 2 + 1, f - 1) \in next
          BY <1>1, <2>3, <4>2, <4>3, ClosedScans
        <4>5. QED BY <1>4, <4>3, <4>4
      <3>3. QED BY <3>1, <3>2
    <2>5. In(n - 1) = f
      BY <1>1 DEF f
    <2>6. Kernel(n, next)
      BY <1>1, <2>1, <2>2, <2>4, <2>5 DEF Kernel, t, n
    <2>7. QED BY <2>1, <2>4, <2>6
  <1>8. ASSUME t = EOF PROVE StartItem(2) \in next
    <2>1. f = 0 /\ n > 1
      BY <1>3, <1>8 DEF Opens, Partner, EOF
    <2>2. i # f
      BY <1>1, <2>1 DEF n
    <2>3. Item("START", StartRule, 1, 0) \in State(i)
      <3>1. Whole(f, 2, Item("START", StartRule, 1, 0))
        BY <2>1 DEF Whole, StartItem, StartRule
      <3>2. QED BY <1>1, <2>2, <3>1 DEF Ready, f
    <2>4. 1 # Len(StartRule) /\ StartRule[1 + 1] = t /\ t = tokens[i + 1] /\ 1 + 1 = 2
      BY <1>8, RuleSymbols DEF t, n
    <2>5. Item("START", StartRule, 1 + 1, 0) \in next
      BY <1>1, <2>3, <2>4, ClosedScans
    <2>6. QED BY <2>4, <2>5 DEF StartItem, StartRule
  <1>9. n = Last + 1
    BY DEF n, i
  <1>10. QED BY <1>1, <1>5, <1>6, <1>7, <1>8, <1>9, KindsOfTokens

-----------------------------------------------------------------------------
(* What stays when the tokens become more. *)

Keeps ==
    /\ \A i \in 1..Len(tokens) : tokens'[i] = tokens[i]
    /\ \A i \in 0..Len(inside) - 1 : In(i)' = In(i)

LEMMA SoundKept ==
    ASSUME LengthInv, Keeps, NEW j \in 0..Last, NEW x \in Items, Sound(x, j)
    PROVE  Sound(x, j)'
  <1>1. /\ Last \in Nat /\ Len(tokens) \in Nat /\ Len(inside) \in Nat
        /\ Last <= Len(tokens) /\ Last <= Len(inside) - 1
    BY Basics
  <1>2. x.parent \in Nat /\ x.pos \in Nat /\ x.parent <= j
    BY DEF Items, Sound
  <1>3. In(j)' = In(j) /\ In(x.parent)' = In(x.parent)
    BY <1>1, <1>2 DEF Keeps
  <1>4. x.pos > 0 => tokens'[x.parent + 1] = tokens[x.parent + 1]
    <2>1. x.pos > 0 => x.parent < j
      BY DEF Sound
    <2>2. x.pos > 0 => x.parent + 1 \in 1..Len(tokens)
      BY <1>1, <1>2, <2>1
    <2>3. QED BY <2>2 DEF Keeps
  <1>5. QED BY <1>3, <1>4 DEF Sound, Complete

LEMMA InsideOfKept ==
    ASSUME LengthInv, InsideInv, Keeps,
           NEW j \in 1..Len(tokens), j <= Len(inside), NEW in
    PROVE  InsideOf(j, in)' <=> InsideOf(j, in)
  <1>1. Len(tokens) \in Nat /\ Len(inside) \in Nat /\ j - 1 \in 0..Len(inside) - 1
    BY Basics
  <1>2. In(j - 1) \in Nat /\ In(j - 1) <= j - 1
    BY <1>1, Basics DEF InsideInv
  <1>3. PICK i \in Nat : i = In(j - 1)
    BY <1>2
  <1>4. In(j - 1)' = i /\ tokens'[j] = tokens[j]
    BY <1>1, <1>3 DEF Keeps
  <1>5. i # 0 => i \in 1..Len(tokens) /\ i - 1 \in 0..Len(inside) - 1
    BY <1>1, <1>2, <1>3
  <1>6. i # 0 => tokens'[i] = tokens[i] /\ In(i - 1)' = In(i - 1)
    BY <1>5 DEF Keeps
  <1>7. QED BY <1>3, <1>4, <1>6 DEF InsideOf

LEMMA FrameKept ==
    ASSUME Keeps, NEW f \in 0..Len(tokens), NEW p, NEW x
    PROVE  (Whole(f, p, x)' <=> Whole(f, p, x)) /\ (Empty(f, x)' <=> Empty(f, x))
  <1>1. f # 0 => f \in 1..Len(tokens)
    OBVIOUS
  <1>2. f # 0 => tokens'[f] = tokens[f]
    BY <1>1 DEF Keeps
  <1>3. QED BY <1>2 DEF Whole, Empty

LEMMA ReadyKept ==
    ASSUME LengthInv, InsideInv, Keeps, NEW j \in 0..Last, j < Len(tokens),
           State(j) \subseteq State(j)', Ready(j)
    PROVE  Ready(j)'
  <1>1. /\ In(j) \in 0..j /\ In(j) \in 0..Len(tokens) /\ In(j)' = In(j)
        /\ tokens'[j + 1] = tokens[j + 1]
    BY Basics, InsideItself DEF Keeps
  <1>2. \A p, x : /\ Whole(In(j), p, x)' <=> Whole(In(j), p, x)
                  /\ Empty(In(j), x)' <=> Empty(In(j), x)
    BY <1>1, FrameKept
  <1>3. QED BY <1>1, <1>2 DEF Ready

LEMMA KernelKept ==
    ASSUME LengthInv, InsideInv, Keeps, NEW j \in 0..Len(tokens), j <= Last + 1,
           NEW S, NEW T, S \subseteq T, Kernel(j, S)
    PROVE  Kernel(j, T)'
  <1>1. \A p, x : /\ Whole(j, p, x)' <=> Whole(j, p, x)
                  /\ Empty(j, x)' <=> Empty(j, x)
    BY FrameKept
  <1>2. /\ Last \in Nat /\ Len(tokens) \in Nat /\ Len(inside) \in Nat
        /\ Last <= Len(inside) - 1
    BY Basics
  <1>3. CASE j = 0
    BY <1>3 DEF Kernel
  <1>4. CASE j > 0
    <2>1. j - 1 \in 0..Last /\ j - 1 \in 0..Len(inside) - 1 /\ j \in 1..Len(tokens)
      BY <1>2, <1>4
    <2> DEFINE g == In(j - 1)
    <2>2. In(j - 1)' = g /\ tokens'[j] = tokens[j]
      BY <2>1 DEF Keeps
    <2>3. g \in 0..j - 1
      BY <2>1, InsideItself
    <2>4. g # 0 => tokens'[g] = tokens[g]
      BY <1>2, <2>1, <2>3 DEF Keeps
    <2> HIDE DEF g
    <2>5. tokens[j] \in Opens => \A x : Whole(j, 1, x)' \/ Empty(j, x)' => x \in T
      BY <1>1, <1>4 DEF Kernel
    <2>6. tokens[j] \in AtomKinds => Item("value", UnitRule(tokens[j]), 1, j - 1) \in T
      BY <1>4 DEF Kernel
    <2>7. tokens[j] \in DOMAIN Partner =>
            \E c \in ListKinds : \E rhs \in Rules[c] :
                g # 0 /\ tokens[g] = Opening(c) /\ Item(c, rhs, Len(rhs), g - 1) \in T
      BY <1>4 DEF Kernel, g
    <2>8. QED BY <1>4, <2>2, <2>4, <2>5, <2>6, <2>7 DEF Kernel
  <1>5. QED BY <1>3, <1>4

-----------------------------------------------------------------------------
(* The invariant holds at first, and every step keeps it. *)

LEMMA InitInv == ParserInit => EarleyInv
  <1> SUFFICES ASSUME ParserInit PROVE EarleyInv
    OBVIOUS
  <1>1. /\ Len(tokens) = 0 /\ tokens \in Seq(Tokens)
        /\ Len(states) = 1 /\ states[1] = {StartItem(0)}
        /\ Len(inside) = 1 /\ inside[1] = 0 /\ inside \in Seq(Nat)
        /\ outcome = "reading" /\ pending = {} /\ next = {}
    BY DEF ParserInit
  <1>2. /\ StartRule \in Rules["START"] /\ "START" \in Nonterminals /\ Len(StartRule) = 2
    BY RulesAre, RuleSymbols
  <1> DEFINE s == StartItem(0)
  <1>3. /\ s = Item("START", StartRule, 0, 0) /\ s \in Items
        /\ s.lhs = "START" /\ s.rhs = StartRule /\ s.pos = 0 /\ s.parent = 0
    BY <1>2, NewItem, ItemIs DEF StartItem, StartRule
  <1> HIDE DEF s
  <1>4. Last = 0 /\ State(Last) = {s} /\ In(0) = 0 /\ Matched /\ State(0) = {s}
    BY <1>1 DEF Last, State, In, Matched, s
  <1>5. states \in Seq(SUBSET Items)
    <2>1. {s} \in SUBSET Items
      BY <1>3
    <2>2. states = <<{s}>>
      BY DEF ParserInit, s
    <2>3. QED BY <2>1, <2>2
  <1>6. LengthInv
    BY <1>1, <1>4, <1>5 DEF LengthInv
  <1>7. InsideInv
    BY <1>1, <1>4 DEF InsideInv
  <1>8. Sound(s, 0)
    BY <1>2, <1>3 DEF Sound, ListKinds
  <1>9. SoundInv
    BY <1>1, <1>4, <1>8 DEF SoundInv
  <1>10. ChartInv
    BY <1>1, <1>4 DEF ChartInv, Kernel, s
  <1>11. ParserAcceptsMatched
    BY <1>1, <1>4 DEF ParserAcceptsMatched
  <1>12. QED BY <1>6, <1>7, <1>9, <1>10, <1>11 DEF EarleyInv

LEMMA ReadKeeps == ASSUME EarleyInv, NEW token \in Tokens, Read(token) PROVE EarleyInv'
  <1>a. PICK n : n = Len(tokens)
    OBVIOUS
  <1>b. PICK m : m = InnermostAfter(token)
    OBVIOUS
  <1>c. PICK f : f = In(n)
    OBVIOUS
  <1>1. LengthInv /\ InsideInv /\ SoundInv /\ ChartInv
    BY DEF EarleyInv
  <1>2. /\ outcome = "reading" /\ outcome' = "walking" /\ tokens' = Append(tokens, token)
        /\ pending' = states[Len(states)] /\ next' = {} /\ states' = states
        /\ inside' = IF Matches(token) THEN Append(inside, m) ELSE inside
    BY <1>b DEF Read
  <1>3. /\ n \in Nat /\ Last = n /\ Len(states) = n + 1 /\ Len(inside) = n + 1
        /\ tokens \in Seq(Tokens) /\ inside \in Seq(Nat)
        /\ f \in 0..n /\ In(f) = f /\ (f # 0 => tokens[f] \in Opens)
        /\ \A j \in 1..n : tokens[j] \in Tokens /\ tokens[j] # EOF
    BY <1>1, <1>2, <1>a, <1>c, Basics, InsideItself DEF LengthInv, Matched
  <1>4. /\ Len(tokens') = n + 1 /\ tokens' \in Seq(Tokens) /\ tokens'[n + 1] = token
        /\ \A j \in 1..n : tokens'[j] = tokens[j]
    BY <1>2, <1>3, <1>a
  <1>5. /\ Last' = Last /\ pending' = State(Last) /\ pending' = State(Last)'
        /\ \A j : State(j)' = State(j)
    BY <1>2, <1>3, <1>a DEF State, Last
  <1>6. Innermost = f /\ (f # 0 => f - 1 \in 0..n /\ inside[f] = In(f - 1))
    BY <1>3, <1>c DEF Innermost, In
  <1>7. /\ token \notin DOMAIN Partner \/ token \notin Opens
        /\ token = EOF => token \notin Opens /\ token \notin DOMAIN Partner
    BY DEF Partner, Opens, EOF
  <1>8. ASSUME Matches(token)
        PROVE  /\ m \in 0..n + 1 /\ (m # 0 => tokens'[m] \in Opens)
               /\ token \in Opens => m = n + 1
               /\ token \notin Opens /\ token \in DOMAIN Partner =>
                     f # 0 /\ tokens[f] = Partner[token] /\ m = In(f - 1)
               /\ token \notin Opens /\ token \notin DOMAIN Partner => m = f
               /\ token = EOF => f = 0 /\ n # 0
    <2>1. /\ token \in DOMAIN Partner => f # 0 /\ tokens[f] = Partner[token]
          /\ token = EOF => f = 0 /\ tokens # <<>>
      BY <1>6, <1>8 DEF Matches
    <2>2. m = IF token \in Opens THEN n + 1
              ELSE IF token \in DOMAIN Partner THEN inside[f] ELSE f
      BY <1>6, <1>a, <1>b DEF InnermostAfter
    <2>3. n = 0 => tokens = <<>>
      BY <1>3, <1>a, EmptySeq
    <2>4. CASE token \in Opens
      BY <1>3, <1>4, <1>7, <2>2, <2>4
    <2>5. CASE token \notin Opens /\ token \in DOMAIN Partner
      <3>1. f # 0 /\ tokens[f] = Partner[token] /\ m = In(f - 1) /\ f - 1 \in 0..n
        BY <1>6, <2>1, <2>2, <2>5
      <3>2. m \in 0..f - 1 /\ (m # 0 => tokens[m] \in Opens)
        BY <1>1, <1>3, <3>1, InsideItself
      <3>3. m # 0 => m \in 1..n
        BY <1>3, <3>1, <3>2
      <3>4. m \in 0..n + 1 /\ (m # 0 => tokens'[m] \in Opens)
        BY <1>3, <1>4, <3>1, <3>2, <3>3
      <3>5. QED BY <1>7, <2>5, <3>1, <3>4
    <2>6. CASE token \notin Opens /\ token \notin DOMAIN Partner
      <3>1. m = f
        BY <2>2, <2>6
      <3>2. m # 0 => m \in 1..n
        BY <1>3, <3>1
      <3>3. m \in 0..n + 1 /\ (m # 0 => tokens'[m] \in Opens)
        BY <1>3, <1>4, <3>1, <3>2
      <3>4. QED BY <2>1, <2>3, <2>6, <3>1, <3>3
    <2>7. QED BY <2>4, <2>5, <2>6
  <1>9. /\ inside' \in Seq(Nat) /\ \A j \in 0..n : In(j)' = In(j)
        /\ Matches(token) => Len(inside') = n + 2 /\ In(n + 1)' = m
        /\ ~Matches(token) => Len(inside') = n + 1
    <2>1. CASE Matches(token)
      <3>1. m \in Nat
        BY <1>8, <2>1, <1>3
      <3>2. inside' = Append(inside, m)
        BY <1>2, <2>1
      <3>3. /\ inside' \in Seq(Nat) /\ Len(inside') = n + 2 /\ inside'[n + 2] = m
            /\ \A j \in 1..n + 1 : inside'[j] = inside[j]
        BY <1>3, <3>1, <3>2
      <3>4. \A j \in 0..n : inside'[j + 1] = inside[j + 1]
        BY <1>3, <3>3
      <3>5. inside'[(n + 1) + 1] = m
        BY <1>3, <3>3
      <3>6. QED BY <2>1, <3>3, <3>4, <3>5 DEF In
    <2>2. CASE ~Matches(token)
      BY <1>2, <1>3, <2>2 DEF In
    <2>3. QED BY <2>1, <2>2
  <1>10. Keeps
    BY <1>3, <1>4, <1>9, <1>a DEF Keeps
  <1>11. ASSUME NEW i
         PROVE  InsideOf(n + 1, i)' <=>
                    IF token \in Opens THEN i = n + 1
                    ELSE IF token \in DOMAIN Partner
                    THEN f # 0 /\ tokens[f] = Partner[token] /\ i = In(f - 1)
                    ELSE i = f /\ (token = EOF => f = 0 /\ n # 0)
    <2>1. (n + 1) - 1 = n /\ n \in 0..n /\ (n + 1 > 1 <=> n # 0)
      BY <1>3
    <2>2. In(n)' = f
      BY <1>9, <1>c, <2>1
    <2>3. f # 0 => f \in 1..n /\ f - 1 \in 0..n
      BY <1>3
    <2>4. f # 0 => tokens'[f] = tokens[f] /\ In(f - 1)' = In(f - 1)
      BY <1>4, <1>9, <2>3
    <2>5. QED BY <1>4, <2>1, <2>2, <2>4 DEF InsideOf
  <1>12. Matches(token) <=> \E i \in Nat : InsideOf(n + 1, i)'
    <2>1. Matches(token) => m \in Nat /\ InsideOf(n + 1, m)'
      BY <1>3, <1>8, <1>11
    <2>2. tokens # <<>> <=> n # 0
      BY <1>3, <1>a, EmptySeq
    <2>3. ASSUME NEW i \in Nat, InsideOf(n + 1, i)' PROVE Matches(token)
      BY <1>6, <1>7, <1>11, <2>2, <2>3 DEF Matches
    <2>4. QED BY <2>1, <2>3
  <1>13. LengthInv'
    <2>1. pending' \in SUBSET Items /\ next' \in SUBSET Items /\ states' \in Seq(SUBSET Items)
      BY <1>1, <1>2, <1>3, <1>5, Basics DEF LengthInv
    <2>2. Len(states') = n + 1 /\ Len(tokens') = n + 1 /\ tokens' \in Seq(Tokens)
      BY <1>2, <1>3, <1>4
    <2>3. Len(inside') = Len(tokens') \/ Matched'
      BY <1>3, <1>4, <1>9 DEF Matched
    <2>4. \A j \in 1..Len(tokens') : tokens'[j] = EOF => j = Len(tokens')
      BY <1>3, <1>4, <2>2
    <2>5. QED BY <1>2, <1>3, <1>9, <2>1, <2>2, <2>3, <2>4 DEF LengthInv
  <1>14. Matched' <=> Matches(token)
    BY <1>3, <1>4, <1>9 DEF Matched
  <1>15. InsideInv'
    <2>1. In(0)' = 0
      BY <1>1, <1>3, <1>9 DEF InsideInv
    <2>2. ASSUME NEW j \in 1..n PROVE InsideOf(j, In(j))'
      <3>1. PICK k : k = In(j)
        OBVIOUS
      <3>2. InsideOf(j, k) /\ j \in 1..Len(tokens) /\ j <= Len(inside) /\ In(j)' = k
        BY <1>1, <1>3, <1>9, <1>a, <3>1 DEF InsideInv
      <3>3. InsideOf(j, k)'
        BY <1>1, <1>10, <3>2, InsideOfKept
      <3>4. QED BY <3>2, <3>3
    <2>3. ASSUME NEW j \in 0..n PROVE (In(j) <= j /\ (In(j) # 0 => tokens[In(j)] \in Opens))'
      <3>1. PICK k \in 0..j : k = In(j)
        BY <1>1, <1>3, InsideItself
      <3>2. In(j)' = k /\ (k # 0 => tokens[k] \in Opens)
        BY <1>1, <1>3, <1>9, <3>1, InsideItself
      <3>3. k # 0 => k \in 1..n
        BY <1>3, <3>1
      <3>4. k <= j /\ (k # 0 => tokens'[k] \in Opens)
        BY <1>4, <3>1, <3>2, <3>3
      <3>5. QED BY <3>2, <3>4
    <2>4. Matches(token) => /\ In(n + 1)' = m /\ InsideOf(n + 1, m)'
                            /\ m <= n + 1 /\ (m # 0 => tokens'[m] \in Opens)
      BY <1>3, <1>8, <1>9, <1>11
    <2>5. Len(inside') - 1 = IF Matches(token) THEN n + 1 ELSE n
      BY <1>3, <1>9
    <2>6. ASSUME NEW j \in 1..(IF Matches(token) THEN n + 1 ELSE n) PROVE InsideOf(j, In(j))'
      <3>1. CASE j \in 1..n
        BY <2>2, <3>1
      <3>2. CASE j = n + 1 /\ Matches(token)
        <4>1. In(j)' = m /\ InsideOf(j, m)'
          BY <2>4, <3>2
        <4>2. QED BY <4>1
      <3>3. QED BY <1>3, <3>1, <3>2
    <2>7. ASSUME NEW j \in 0..(IF Matches(token) THEN n + 1 ELSE n)
          PROVE  (In(j) <= j /\ (In(j) # 0 => tokens[In(j)] \in Opens))'
      <3>1. CASE j \in 0..n
        BY <2>3, <3>1
      <3>2. CASE j = n + 1 /\ Matches(token)
        <4>1. In(j)' = m /\ m <= j /\ (m # 0 => tokens'[m] \in Opens)
          BY <2>4, <3>2
        <4>2. QED BY <4>1
      <3>3. QED BY <1>3, <3>1, <3>2
    <2>8. Matched' <=> \E i \in Nat : InsideOf(Len(tokens), i)'
      <3>1. \A i : InsideOf(Len(tokens), i)' <=> InsideOf(n + 1, i)'
        BY <1>4
      <3>2. QED BY <1>12, <1>14, <3>1
    <2>9. QED BY <2>1, <2>5, <2>6, <2>7, <2>8 DEF InsideInv
  <1>16. SoundInv'
    <2>1. ASSUME NEW j \in 0..Last, NEW x \in State(j) PROVE Sound(x, j)'
      <3>1. x \in Items /\ Sound(x, j)
        BY <1>1, Basics DEF SoundInv
      <3>2. QED BY <1>1, <1>10, <3>1, SoundKept
    <2>2. \A j \in 0..Last' : \A x \in State(j)' : Sound(x, j)'
      BY <1>5, <2>1
    <2>3. QED BY <1>2, <1>5, <2>2 DEF SoundInv
  <1>17. ChartInv'
    <2>1. ASSUME NEW j \in 0..Last - 1 PROVE Ready(j)'
      <3>1. Ready(j) /\ j \in 0..Last /\ j < Len(tokens) /\ State(j) \subseteq State(j)'
        BY <1>1, <1>3, <1>5, <1>a DEF ChartInv
      <3>2. QED BY <1>1, <1>10, <3>1, ReadyKept
    <2>2. Kernel(n, State(n))'
      <3>1. PICK S : S = State(n)
        OBVIOUS
      <3>2. Kernel(n, S) /\ State(n)' = S /\ n \in 0..Len(tokens) /\ n <= Last + 1
        BY <1>1, <1>2, <1>3, <1>5, <1>a, <3>1 DEF ChartInv
      <3>3. Kernel(n, S)'
        BY <1>1, <1>10, <3>2, KernelKept
      <3>4. QED BY <3>2, <3>3
    <2>3. Closed(Last, State(Last) \ pending, next)'
      <3>1. (State(Last) \ pending)' = {}
        BY <1>5
      <3>2. QED BY <3>1 DEF Closed
    <2>4. QED BY <1>2, <1>3, <1>5, <2>1, <2>2, <2>3 DEF ChartInv
  <1>18. ParserAcceptsMatched'
    BY <1>2 DEF ParserAcceptsMatched
  <1>19. QED BY <1>13, <1>15, <1>16, <1>17, <1>18 DEF EarleyInv

\* What the loop adds is sound.
LEMMA NewIsSound ==
    ASSUME LengthInv, InsideInv, SoundInv, outcome = "walking", NEW x \in New
    PROVE  x \in Items /\ Sound(x, Last)
  <1>1. /\ Last \in Nat /\ At = Last /\ pending \subseteq State(Last)
        /\ \A j \in 0..Last : \A y \in State(j) : y \in Items /\ Sound(y, j)
    BY Basics DEF SoundInv
  <1>2. CASE \E d \in Completed : x \in Completer(d)
    <2>1. PICK d \in Completed : x \in Completer(d)
      BY <1>2
    <2>2. PICK p \in Waiting(d) : x = Advance(p)
      BY <2>1 DEF Completer
    <2>3. d \in Items /\ Sound(d, Last) /\ Complete(d) /\ d.parent \in 0..Last
      BY <1>1, <2>1 DEF Completed, Sound, Items
    <2>4. p \in Items /\ Sound(p, d.parent) /\ ~Complete(p) /\ NextSym(p) = d.lhs
      BY <1>1, <2>2, <2>3 DEF Waiting, State
    <2>5. QED BY <1>1, <2>2, <2>3, <2>4, CompletedSound, AdvanceIs
  <1>3. CASE \E d \in Predicting : x \in Predictor(d)
    <2>1. PICK d \in Predicting : x \in Predictor(d)
      BY <1>3
    <2> DEFINE l == NextSym(d)
    <2>2. PICK r \in Rules[l] : x = Item(l, r, 0, Last)
      BY <1>1, <2>1 DEF Predictor
    <2>3. d \in Items /\ Sound(d, Last) /\ ~Complete(d) /\ l \in Nonterminals
      BY <1>1, <2>1 DEF Predicting
    <2>4. l # "START"
      <3>1. Form(d) /\ d.pos <= Len(d.rhs)
        BY <2>3, Forms DEF Sound
      <3>2. /\ "START" \notin ListKinds \cup AtomKinds /\ "START" # EOF
            /\ \A c \in ListKinds : "START" # Opening(c) /\ "START" # Closing(c)
        BY DEF ListKinds, AtomKinds, EOF, Opening, Closing
      <3>3. QED BY <2>3, <3>1, <3>2, NextSymIs
    <2> HIDE DEF l
    <2>5. x \in Items /\ x.lhs = l /\ x.rhs = r /\ x.pos = 0 /\ x.parent = Last
      BY <1>1, <2>2, <2>3, NewItem, ItemIs
    <2>6. Form(x)
      BY <2>2, <2>5, Forms
    <2>7. Len(r) \in Nat
      BY <2>5, <2>6, RuleSymbols DEF Form
    <2>8. Sound(x, Last)
      BY <1>1, <2>2, <2>4, <2>5, <2>7 DEF Sound
    <2>9. QED BY <2>5, <2>8
  <1>4. QED BY <1>2, <1>3 DEF New

LEMMA WalkKeeps == ASSUME EarleyInv, Walk PROVE EarleyInv'
  <1>1. LengthInv /\ InsideInv /\ SoundInv /\ ChartInv /\ ParserAcceptsMatched
    BY DEF EarleyInv
  <1>2. /\ outcome = "walking" /\ outcome' = outcome /\ tokens' = tokens /\ inside' = inside
        /\ states' = [states EXCEPT ![Len(tokens)] = @ \cup New]
        /\ pending' = New \ states[Len(tokens)]
        /\ next' = next \cup {Advance(x) : x \in Scanned}
    BY DEF Walk
  <1>a. PICK i : i = Last
    OBVIOUS
  <1>3. /\ i \in Nat /\ Len(tokens) = i + 1 /\ Len(states) = i + 1 /\ states \in Seq(SUBSET Items)
        /\ At = i /\ Token = tokens[i + 1] /\ states[Len(tokens)] = State(i)
        /\ pending \subseteq State(i) /\ State(i) \subseteq Items
        /\ \A j \in 0..i : State(j) \subseteq Items
    <2>1. /\ i \in Nat /\ Len(tokens) = i + 1 /\ Len(states) = i + 1 /\ states \in Seq(SUBSET Items)
          /\ At = i /\ Token = tokens[i + 1] /\ \A j \in 0..i : State(j) \subseteq Items
      BY <1>1, <1>2, <1>a, Basics DEF LengthInv
    <2>2. states[Len(tokens)] = State(i)
      BY <2>1 DEF State
    <2>3. pending \subseteq State(i)
      BY <1>1, <1>2, <1>a DEF SoundInv
    <2>4. i \in 0..i
      BY <2>1
    <2>5. QED BY <2>1, <2>2, <2>3, <2>4
  <1>4. New \subseteq Items /\ \A x \in New : Sound(x, i)
    BY <1>1, <1>2, <1>a, NewIsSound
  <1>5. /\ states' \in Seq(SUBSET Items) /\ Len(states') = i + 1 /\ Last' = i
        /\ State(i)' = State(i) \cup New /\ \A j \in 0..i - 1 : State(j)' = State(j)
    <2>1. State(i) \cup New \in SUBSET Items
      BY <1>3, <1>4
    <2>2. states' = [states EXCEPT ![i + 1] = State(i) \cup New]
      BY <1>2, <1>3 DEF State
    <2>3. /\ states' \in Seq(SUBSET Items) /\ Len(states') = i + 1
          /\ states'[i + 1] = State(i) \cup New
          /\ \A j \in 1..i : states'[j] = states[j]
      BY <1>3, <2>1, <2>2
    <2>4. \A j \in 0..i - 1 : states'[j + 1] = states[j + 1]
      BY <1>3, <2>3
    <2>5. QED BY <1>3, <2>3, <2>4 DEF State, Last
  <1>6. Keeps
    BY <1>2 DEF Keeps, In
  <1>7. \A x \in Scanned : /\ Matched /\ Advance(x) \in Items
                           /\ Token = EOF => Advance(x) = StartItem(2)
                           /\ Token # EOF => Sound(Advance(x), Len(tokens))
    <2>1. SUFFICES ASSUME NEW x \in Scanned
                   PROVE  /\ Matched /\ Advance(x) \in Items
                          /\ Token = EOF => Advance(x) = StartItem(2)
                          /\ Token # EOF => Sound(Advance(x), Len(tokens))
      OBVIOUS
    <2>2. x \in State(i) /\ x \in Items /\ ~Complete(x) /\ NextSym(x) = Token
      BY <1>3 DEF Scanned
    <2>3. Sound(x, Last)
      BY <1>1, <1>3, <1>a, <2>2 DEF SoundInv
    <2>4. QED BY <1>1, <1>2, <2>2, <2>3, ScannedSound, AdvanceIs
  <1>8. LengthInv'
    <2>1. pending' \in SUBSET Items /\ next' \in SUBSET Items
      BY <1>1, <1>2, <1>4, <1>7 DEF LengthInv
    <2>2. Matched' <=> Matched
      BY <1>2 DEF Matched
    <2>3. QED BY <1>1, <1>2, <1>3, <1>5, <2>1, <2>2 DEF LengthInv
  <1>9. InsideInv' /\ ParserAcceptsMatched' /\ (Matched' <=> Matched)
    BY <1>1, <1>2 DEF InsideInv, InsideOf, In, Matched, ParserAcceptsMatched
  <1>10. \A j \in 0..i : \A x \in Items : Sound(x, j) <=> Sound(x, j)'
    BY <1>2 DEF Sound, In, Complete
  <1>11. SoundInv'
    <2>1. \A j \in 0..i : \A x \in State(j)' : Sound(x, j)'
      <3>1. SUFFICES ASSUME NEW j \in 0..i, NEW x \in State(j)' PROVE Sound(x, j)'
        OBVIOUS
      <3>2. x \in State(j) \/ (j = i /\ x \in New)
        BY <1>3, <1>5
      <3>3. Sound(x, j) /\ x \in Items
        BY <1>1, <1>3, <1>4, <1>a, <3>2 DEF SoundInv
      <3>4. QED BY <1>10, <3>3
    <2>2. /\ Token' = Token /\ pending' \subseteq State(i)'
      BY <1>2, <1>5 DEF Token
    <2>3. next' # {} => Matched'
      BY <1>1, <1>2, <1>7, <1>9 DEF SoundInv
    <2>4. Token = EOF => next' \subseteq {StartItem(2)}
      BY <1>1, <1>2, <1>7 DEF SoundInv
    <2>5. ASSUME Token # EOF, NEW x \in next' PROVE Sound(x, Len(tokens))'
      <3>1. PICK k : k = Len(tokens)
        OBVIOUS
      <3>2. Sound(x, k)
        BY <1>1, <1>2, <1>7, <2>5, <3>1 DEF SoundInv
      <3>3. Sound(x, k)'
        BY <1>2, <3>2 DEF Sound, In, Complete
      <3>4. QED BY <1>2, <3>1, <3>3
    <2>6. QED BY <1>2, <1>5, <2>1, <2>2, <2>3, <2>4, <2>5 DEF SoundInv, StartItem, Item
  <1>12. \A j \in 0..i - 1 : Ready(j)'
    <2>1. SUFFICES ASSUME NEW j \in 0..i - 1 PROVE Ready(j)'
      OBVIOUS
    <2>2. Ready(j) /\ j \in 0..Last /\ j < Len(tokens) /\ State(j) \subseteq State(j)'
      BY <1>1, <1>3, <1>5, <1>a DEF ChartInv
    <2>3. QED BY <1>1, <1>6, <2>2, ReadyKept
  <1>13. Kernel(i, State(i))'
    <2>1. PICK S, T : S = State(i) /\ T = State(i) \cup New
      OBVIOUS
    <2>2. /\ Kernel(i, S) /\ State(i)' = T /\ S \subseteq T
          /\ i \in 0..Len(tokens) /\ i <= Last + 1
      BY <1>1, <1>2, <1>3, <1>5, <1>a, <2>1 DEF ChartInv
    <2>3. Kernel(i, T)'
      BY <1>1, <1>6, <2>2, KernelKept
    <2>4. QED BY <2>2, <2>3
  <1>14. Closed(i, State(i) \ pending, next)'
    <2>1. (State(i) \ pending)' = State(i)
      BY <1>2, <1>3, <1>5
    <2>2. ASSUME NEW x \in State(i)
          PROVE  /\ Complete(x) => \A p \in State(x.parent)' :
                        ~Complete(p) /\ NextSym(p) = x.lhs => Advance(p) \in State(i)'
                 /\ ~Complete(x) /\ NextSym(x) \in Nonterminals =>
                        \A rhs : Expects(NextSym(x), rhs, tokens[i + 1]) =>
                            Item(NextSym(x), rhs, 0, i) \in State(i)'
                 /\ ~Complete(x) /\ NextSym(x) = tokens[i + 1] => Advance(x) \in next'
      <3>1. x \in Items /\ Sound(x, i)
        BY <1>1, <1>3, <1>a DEF SoundInv
      <3>2. Complete(x) => State(x.parent)' = State(x.parent)
        <4>1. Form(x)
          BY <3>1, Forms DEF Sound
        <4>2. Len(x.rhs) \in Nat /\ Len(x.rhs) > 0
          BY <4>1, RuleSymbols DEF Form
        <4>3. Complete(x) => x.pos > 0
          BY <4>2 DEF Complete
        <4>4. Complete(x) => x.parent \in 0..i - 1
          BY <1>3, <3>1, <4>3 DEF Sound, Items
        <4>5. QED BY <1>5, <4>4
      <3>3. CASE x \in pending
        <4>1. ASSUME Complete(x), NEW p \in State(x.parent), ~Complete(p), NextSym(p) = x.lhs
              PROVE  Advance(p) \in New
          BY <3>3, <4>1 DEF New, Completed, Completer, Waiting, State
        <4>2. ASSUME ~Complete(x), NextSym(x) \in Nonterminals,
                     NEW rhs, Expects(NextSym(x), rhs, tokens[i + 1])
              PROVE  Item(NextSym(x), rhs, 0, i) \in New
          BY <1>3, <3>3, <4>2 DEF New, Predicting, Predictor, Expects, Fits
        <4>3. ~Complete(x) /\ NextSym(x) = tokens[i + 1] => Advance(x) \in next'
          BY <1>2, <1>3, <3>3 DEF Scanned
        <4>4. QED BY <1>5, <3>2, <4>1, <4>2, <4>3
      <3>4. CASE x \notin pending
        <4>1. Closed(i, State(i) \ pending, next)
          BY <1>1, <1>2, <1>a DEF ChartInv
        <4>2. QED BY <1>2, <1>5, <3>2, <3>4, <4>1 DEF Closed
      <3>5. QED BY <3>3, <3>4
    <2>3. QED BY <1>2, <2>1, <2>2 DEF Closed, Expects, Complete, NextSym, Advance, Item
  <1>15. ChartInv'
    BY <1>2, <1>5, <1>12, <1>13, <1>14 DEF ChartInv
  <1>16. QED BY <1>8, <1>9, <1>11, <1>15 DEF EarleyInv

LEMMA EndStateKeeps == ASSUME EarleyInv, EndState PROVE EarleyInv'
  <1>1. LengthInv /\ InsideInv /\ SoundInv /\ ChartInv
    BY DEF EarleyInv
  <1>2. /\ outcome = "walking" /\ pending = {} /\ tokens' = tokens /\ inside' = inside
        /\ pending' = pending /\ next' = next
        /\ outcome' = IF Token # EOF THEN IF next = {} THEN "error" ELSE "reading"
                      ELSE IF next = {StartItem(2)} THEN "code"
                      ELSE IF At = 0 THEN "IndexError" ELSE "error"
        /\ states' = IF outcome' = "reading" THEN Append(states, next) ELSE states
    BY DEF EndState
  <1>a. PICK i : i = Last
    OBVIOUS
  <1>3. /\ i \in Nat /\ Len(tokens) = i + 1 /\ Len(states) = i + 1 /\ states \in Seq(SUBSET Items)
        /\ At = i /\ Token = tokens[i + 1] /\ \A j \in 0..i : State(j) \subseteq Items
    BY <1>1, <1>2, <1>a, Basics DEF LengthInv
  <1>4. /\ \A j \in 0..Last - 1 : Ready(j)
        /\ Closed(Last, State(Last), next) /\ Kernel(Last, State(Last))
    <2>1. State(Last) \ pending = State(Last)
      BY <1>2
    <2>2. QED BY <1>1, <1>2, <2>1 DEF ChartInv
  <1>5. Matched => /\ next # {}
                   /\ Token = EOF => StartItem(2) \in next
                   /\ Token # EOF => Kernel(i + 1, next)
    BY <1>1, <1>2, <1>4, <1>a, MatchedGoesOn
  <1>6. /\ next # {} => Matched
        /\ Token = EOF => next \subseteq {StartItem(2)}
        /\ Token # EOF => \A x \in next : Sound(x, i + 1)
    BY <1>1, <1>2, <1>3 DEF SoundInv
  <1>7. (Matched' <=> Matched) /\ Keeps
    BY <1>2 DEF Matched, Keeps, In
  <1>8. ParserAcceptsMatched'
    BY <1>2, <1>5, <1>6, <1>7 DEF ParserAcceptsMatched
  <1>9. CASE outcome' = "reading"
    <2>1. Token # EOF /\ next # {} /\ states' = Append(states, next) /\ Matched
      BY <1>2, <1>6, <1>9
    <2>2. next \subseteq Items /\ next \in SUBSET Items
      BY <1>1 DEF LengthInv
    <2>3. /\ states' \in Seq(SUBSET Items) /\ Len(states') = i + 2 /\ states'[i + 2] = next
          /\ \A j \in 1..i + 1 : states'[j] = states[j]
      BY <1>3, <2>1, <2>2
    <2>4. /\ Last' = i + 1 /\ State(i + 1)' = next /\ \A j \in 0..i : State(j)' = State(j)
      <3>1. states'[(i + 1) + 1] = next /\ \A j \in 0..i : states'[j + 1] = states[j + 1]
        BY <1>3, <2>3
      <3>2. QED BY <1>3, <2>3, <3>1 DEF Last, State
    <2>5. LengthInv'
      <3>1. \A j \in 1..Len(tokens) : tokens[j] # EOF
        BY <1>1, <1>3, <2>1 DEF LengthInv
      <3>2. QED BY <1>1, <1>2, <1>3, <1>7, <1>9, <2>1, <2>2, <2>3, <3>1 DEF LengthInv
    <2>6. InsideInv'
      BY <1>1, <1>2, <1>9 DEF InsideInv, InsideOf, In
    <2>7. ASSUME NEW j \in 0..i + 1, NEW x \in State(j)' PROVE Sound(x, j)'
      <3>1. CASE j \in 0..i
        <4>1. x \in Items /\ Sound(x, j) /\ j \in 0..Last
          BY <1>1, <1>3, <1>a, <2>4, <2>7, <3>1 DEF SoundInv
        <4>2. QED BY <1>1, <1>7, <4>1, SoundKept
      <3>2. CASE j = i + 1
        <4>1. Sound(x, j)
          BY <1>6, <2>1, <2>4, <2>7, <3>2
        <4>2. QED BY <1>2, <4>1 DEF Sound, In, Complete
      <3>3. QED BY <1>3, <3>1, <3>2
    <2>8. SoundInv'
      BY <1>9, <2>4, <2>7 DEF SoundInv
    <2>9. \A j \in 0..i : Ready(j)
      BY <1>1, <1>2, <1>3, <1>4, <1>a, StateIsReady
    <2>10. ASSUME NEW j \in 0..i PROVE Ready(j)'
      <3>1. Ready(j) /\ j \in 0..Last /\ j < Len(tokens) /\ State(j) \subseteq State(j)'
        BY <1>3, <1>a, <2>4, <2>9
      <3>2. QED BY <1>1, <1>7, <3>1, ReadyKept
    <2>11. Kernel(i + 1, State(i + 1))'
      <3>1. PICK S, k : S = next /\ k = i + 1
        OBVIOUS
      <3>2. Kernel(k, S) /\ k \in 0..Len(tokens) /\ k <= Last + 1 /\ S \subseteq S
        BY <1>3, <1>5, <1>a, <2>1, <3>1
      <3>3. Kernel(k, S)'
        BY <1>1, <1>7, <3>2, KernelKept
      <3>4. QED BY <2>4, <3>1, <3>3
    <2>12. ChartInv'
      BY <1>3, <1>9, <2>4, <2>10, <2>11 DEF ChartInv
    <2>13. QED BY <1>8, <2>5, <2>6, <2>8, <2>12 DEF EarleyInv
  <1>10. CASE outcome' # "reading"
    <2>1. states' = states /\ outcome' \in {"code", "error", "IndexError"}
      BY <1>2, <1>10
    <2>2. Last' = Last /\ \A j : State(j)' = State(j)
      BY <2>1 DEF Last, State
    <2>3. LengthInv'
      BY <1>1, <1>2, <1>7, <2>1 DEF LengthInv
    <2>4. InsideInv'
      BY <1>1, <1>2, <1>7, <1>10 DEF InsideInv, InsideOf, In
    <2>5. SoundInv'
      <3>1. ASSUME NEW j \in 0..Last, NEW x \in State(j) PROVE Sound(x, j)'
        <4>1. x \in Items /\ Sound(x, j)
          BY <1>1, <1>3, <1>a DEF SoundInv
        <4>2. QED BY <1>1, <1>7, <4>1, SoundKept
      <3>2. QED BY <2>1, <2>2, <3>1 DEF SoundInv
    <2>6. ChartInv'
      <3>1. ASSUME NEW j \in 0..Last - 1 PROVE Ready(j)'
        <4>1. Ready(j) /\ j \in 0..Last /\ j < Len(tokens) /\ State(j) \subseteq State(j)'
          BY <1>3, <1>4, <1>a, <2>2
        <4>2. QED BY <1>1, <1>7, <4>1, ReadyKept
      <3>2. QED BY <2>1, <2>2, <3>1 DEF ChartInv
    <2>7. QED BY <1>8, <2>3, <2>4, <2>5, <2>6 DEF EarleyInv
  <1>11. QED BY <1>9, <1>10

LEMMA StutterKeeps == ASSUME EarleyInv, UNCHANGED parseVars PROVE EarleyInv'
  <1>1. /\ tokens' = tokens /\ states' = states /\ pending' = pending /\ next' = next
        /\ outcome' = outcome /\ inside' = inside
    BY DEF parseVars
  <1>2. /\ LengthInv /\ InsideInv /\ SoundInv /\ ChartInv /\ ParserAcceptsMatched
        /\ Last' = Last /\ Token' = Token /\ (Matched' <=> Matched)
        /\ \A j : State(j)' = State(j) /\ In(j)' = In(j)
    BY <1>1 DEF EarleyInv, Last, Token, Matched, State, In
  <1>3. LengthInv' /\ InsideInv' /\ ParserAcceptsMatched'
    BY <1>1, <1>2 DEF LengthInv, InsideInv, InsideOf, In, Matched, ParserAcceptsMatched
  <1>4. SoundInv'
    BY <1>1, <1>2 DEF SoundInv, Sound, Complete, StartItem, Item
  <1>5. (\A j \in 0..Last - 1 : Ready(j))'
    BY <1>1, <1>2 DEF ChartInv, Ready, Whole, Empty, StartItem, Item
  <1>6. \A j : Kernel(j, State(j))' <=> Kernel(j, State(j))
    BY <1>1, <1>2 DEF Kernel, Whole, Empty, StartItem, Item
  <1>7. Closed(Last, State(Last) \ pending, next)' <=> Closed(Last, State(Last) \ pending, next)
    BY <1>1, <1>2 DEF Closed, Expects, Complete, NextSym, Advance, Item
  <1>8. ChartInv'
    BY <1>1, <1>2, <1>5, <1>6, <1>7 DEF ChartInv
  <1>9. QED BY <1>3, <1>4, <1>8 DEF EarleyInv

THEOREM EarleyInvariant == ParserSpec => []EarleyInv
  <1>1. EarleyInv /\ [ParserNext]_parseVars => EarleyInv'
    <2> SUFFICES ASSUME EarleyInv, [ParserNext]_parseVars PROVE EarleyInv'
      OBVIOUS
    <2>1. ASSUME NEW token \in Tokens, Read(token) PROVE EarleyInv'
      BY <2>1, ReadKeeps
    <2>2. CASE Walk
      BY <2>2, WalkKeeps
    <2>3. CASE EndState
      BY <2>3, EndStateKeeps
    <2>4. CASE UNCHANGED parseVars
      BY <2>4, StutterKeeps
    <2>5. QED BY <2>1, <2>2, <2>3, <2>4 DEF ParserNext
  <1>2. QED BY <1>1, InitInv, PTL DEF ParserSpec

\* For texts of any length, and any kinds of tokens beside the brackets: the parser
\* (spark.py, GenericParser.parse) accepts exactly the texts with matching brackets.
THEOREM ParserAcceptsMatchedHolds == ParserSpec => []ParserAcceptsMatched
  <1>1. EarleyInv => ParserAcceptsMatched
    BY DEF EarleyInv
  <1>2. QED BY <1>1, EarleyInvariant, PTL

=============================================================================
