------------------------------ MODULE RuleSets ------------------------------
(***************************************************************************)
(* What the table generator and the parser both see in a sequence of rules *)
(* [act, lhs, rhs], and the entries of the table between them.             *)
(***************************************************************************)
EXTENDS Integers, Sequences

(* Every symbol without a rule of its own is a token.                      *)
NonTerminals(rules) == {rules[i].lhs : i \in DOMAIN rules}
Symbols(rule) == {rule.rhs[k] : k \in DOMAIN rule.rhs}
TokensOf(rules) == (UNION {Symbols(rules[i]) : i \in DOMAIN rules}) \ NonTerminals(rules)
RulesOf(rules, symbol) == {i \in DOMAIN rules : rules[i].lhs = symbol}

Entry(do, to) == [do |-> do, to |-> to]
=============================================================================
