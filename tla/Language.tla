------------------------------ MODULE Language ------------------------------
(***************************************************************************)
(* What the rules mean, apart from any table: the derivations of exactly n *)
(* tokens from each symbol, for growing n.  A derivation is a text and the *)
(* rules applied, a rule after those of its parts.  The reference that the *)
(* generated tables and the parser are held against.                       *)
(***************************************************************************)
EXTENDS Tables

Derivation(text, applied) == [text |-> text, applied |-> applied]

Words(language, symbol, n) ==
  IF symbol \in DOMAIN language[n] THEN language[n][symbol]
  ELSE IF n = 1 THEN {Derivation(<<symbol>>, <<>>)} ELSE {}

RECURSIVE Phrases(_, _, _)
Phrases(language, symbols, n) ==
  IF symbols = <<>> THEN IF n = 0 THEN {Derivation(<<>>, <<>>)} ELSE {}
  ELSE UNION {{Derivation(w.text \o p.text, w.applied \o p.applied)
                 : w \in Words(language, Head(symbols), k), p \in Phrases(language, Tail(symbols), n - k)}
              : k \in {k \in 0..n : Words(language, Head(symbols), k) # {}}}

Applications(rules, language, i, n) ==
  {Derivation(p.text, Append(p.applied, i)) : p \in Phrases(language, rules[i].rhs, n)}

RECURSIVE Saturated(_, _, _, _)
Saturated(rules, usable, language, n) ==
  LET derived == [s \in DOMAIN language[n] |->
        UNION {Applications(rules, language, i, n) : i \in RulesOf(rules, s) \cap usable}]
  IN IF derived = language[n] THEN language
     ELSE Saturated(rules, usable, [language EXCEPT ![n] = derived], n)

RECURSIVE LanguageUpTo(_, _, _, _)
LanguageUpTo(rules, usable, language, n) ==
  IF n \notin DOMAIN language THEN language
  ELSE LanguageUpTo(rules, usable, Saturated(rules, usable, language, n), n + 1)

(* The whole texts over a set of tokens, with the ENDF that ends them.     *)
SentencesOf(rules, tokens, length) ==
  LET allowed == NonTerminals(rules) \cup tokens \cup {"ENDF"}
      usable == {i \in DOMAIN rules : Symbols(rules[i]) \subseteq allowed}
      none == [n \in 0..length |-> [s \in NonTerminals(rules) |-> {}]]
      language == LanguageUpTo(rules, usable, none, 0)
  IN UNION {language[n]["Program"] : n \in 0..length}
=============================================================================
