------------------------------- MODULE Tables -------------------------------
(***************************************************************************)
(* tools/gen_parser_tables.py: the LALR(1) action and goto tables of a     *)
(* sequence of rules [act, lhs, rhs], by canonical LR(1) item sets whose   *)
(* kernels are merged.  Rule 1 is the augmented start rule; an item is     *)
(* <<rule, dot, lookahead>>.                                               *)
(***************************************************************************)
EXTENDS RuleSets, FiniteSets

(* compute_nullable                                                        *)
RECURSIVE NullableFrom(_, _)
NullableFrom(rules, known) ==
  LET more == known \cup {rules[i].lhs : i \in {i \in DOMAIN rules : Symbols(rules[i]) \subseteq known}}
  IN IF more = known THEN known ELSE NullableFrom(rules, more)

(* The symbols that may begin what `symbols` derives: those with only      *)
(* nullable ones before them.                                              *)
Leading(symbols, nullable) ==
  {symbols[k] : k \in {k \in DOMAIN symbols : \A j \in 1..(k - 1) : symbols[j] \in nullable}}
FirstOf(symbols, nullable, first) ==
  UNION {IF x \in DOMAIN first THEN first[x] ELSE {x} : x \in Leading(symbols, nullable)}

(* compute_first_sets                                                      *)
RECURSIVE FirstFrom(_, _, _)
FirstFrom(rules, nullable, first) ==
  LET more == [s \in DOMAIN first |->
                 UNION {FirstOf(rules[i].rhs, nullable, first) : i \in RulesOf(rules, s)}]
  IN IF more = first THEN first ELSE FirstFrom(rules, nullable, more)

(* What the closure needs of a rule at a dot, looked up once: the rules of *)
(* the symbol there, and the arguments of first_of_suffix.                 *)
Facts(rules) ==
  LET nullable == NullableFrom(rules, {})
      first == FirstFrom(rules, nullable, [s \in NonTerminals(rules) |-> {}])
      At(rhs, dot) ==
        LET rest == SubSeq(rhs, dot + 2, Len(rhs))
        IN [symbol |-> rhs[dot + 1],
            rules |-> RulesOf(rules, rhs[dot + 1]),
            first |-> FirstOf(rest, nullable, first),
            empty |-> \A k \in DOMAIN rest : rest[k] \in nullable]
  IN [i \in DOMAIN rules |-> [dot \in 0..(Len(rules[i].rhs) - 1) |-> At(rules[i].rhs, dot)]]

Complete(facts, item) == item[2] \notin DOMAIN facts[item[1]]
AtDot(facts, item) == facts[item[1]][item[2]]
(* A slip: forgets that the suffix may be empty.                         *)
FirstOfSuffixAlone(at, la) == at.first
FirstOfSuffix(at, la) == at.first \cup (IF at.empty THEN {la} ELSE {})
Expanded(facts, item) ==
  IF Complete(facts, item) THEN {}
  ELSE AtDot(facts, item).rules \X {0} \X FirstOfSuffix(AtDot(facts, item), item[3])

(* lr1_closure, with the worklist `queue`.                                 *)
RECURSIVE ClosureFrom(_, _, _)
ClosureFrom(facts, items, queue) ==
  LET fresh == UNION {Expanded(facts, i) : i \in queue} \ items
  IN IF fresh = {} THEN items ELSE ClosureFrom(facts, items \cup fresh, fresh)
Closure(facts, items) == ClosureFrom(facts, items, items)

Moving(facts, items) == {i \in items : ~Complete(facts, i)}
Moves(facts, items) == {AtDot(facts, i).symbol : i \in Moving(facts, items)}
Moved(facts, items, symbol) ==
  {<<i[1], i[2] + 1, i[3]>> : i \in {i \in Moving(facts, items) : AtDot(facts, i).symbol = symbol}}

(* compute_lr1_states                                                      *)
RECURSIVE StatesFrom(_, _, _)
StatesFrom(facts, states, pending) ==
  LET found == UNION {{Closure(facts, Moved(facts, I, s)) : s \in Moves(facts, I)} : I \in pending}
               \ states
  IN IF found = {} THEN states ELSE StatesFrom(facts, states \cup found, found)
LR1States(facts) ==
  LET start == Closure(facts, {<<1, 0, "ENDF">>}) IN StatesFrom(facts, {start}, {start})

(* merge_lalr_states: states with the same kernel become one, with the     *)
(* lookaheads of all of them; expand_lalr_state closes it again.           *)
Kernel(items) == {i \in items : i[1] = 1 \/ i[2] > 0}
Core(items) == {<<i[1], i[2]>> : i \in items}
RECURSIVE Numbered(_)
Numbered(sets) ==
  IF sets = {} THEN <<>>
  ELSE LET s == CHOOSE s \in sets : TRUE IN <<s>> \o Numbered(sets \ {s})
MergeStates(facts, kernels) ==
  Numbered({Closure(facts, UNION {k \in kernels : Core(k) = core}) : core \in {Core(k) : k \in kernels}})

(* build_action_goto_maps: a shift wins over every reduction; two          *)
(* reductions are an error of the generator.                               *)
Reducing(rules) ==
  CASE rules = {} -> Entry("error", 0)
    [] rules = {1} -> Entry("accept", 0)
    [] rules # {1} /\ Cardinality(rules) = 1 -> Entry("reduce", CHOOSE r \in rules : TRUE)
    [] OTHER -> Entry("conflict", 0)
Completed(facts, items, token) == {i[1] : i \in {i \in items : Complete(facts, i) /\ i[3] = token}}
ActionAt(facts, items, goto, token) ==
  IF token \in DOMAIN goto THEN Entry("shift", goto[token])
  ELSE Reducing(Completed(facts, items, token))

(* The moves of every merged state, on tokens and on nonterminals.         *)
GotoRows(facts, items) ==
  LET number == [core \in {Core(Kernel(items[n])) : n \in DOMAIN items} |->
                   CHOOSE n \in DOMAIN items : Core(Kernel(items[n])) = core]
  IN [n \in DOMAIN items |-> [s \in Moves(facts, items[n]) |-> number[Core(Moved(facts, items[n], s))]]]

ActionRows(facts, items, goto, tokens) ==
  [n \in DOMAIN items |-> [t \in tokens |-> ActionAt(facts, items[n], goto[n], t)]]
=============================================================================
