-------------------------- MODULE ParserProperties --------------------------
(***************************************************************************)
(* The parser over the tables generated from the grammar, and what it has  *)
(* to do with the language the grammar stands for.                         *)
(***************************************************************************)
EXTENDS GeneratedTables, Parser, Language

(* What the grammar derives from each vocabulary.                          *)
Sentences == [v \in Vocabularies |-> SentencesOf(Productions, v.tokens, v.length)]

(* How such a text may begin.                                              *)
Beginnings ==
  [v \in Vocabularies |-> UNION {{SubSeq(s.text, 1, n) : n \in 0..Len(s.text)} : s \in Sentences[v]}]

-----------------------------------------------------------------------------
(* What the AST says.                                                      *)
RECURSIVE NodesIn(_)
NodesIn(term) ==
  IF term.kind \notin {"node", "list"} THEN {}
  ELSE {term} \cup UNION {NodesIn(term.parts[i]) : i \in DOMAIN term.parts}

IsIf(term) == Made(term, {"IfStmt"})

(* A statement that ends in an if without an else.                         *)
RECURSIVE EndsOpen(_)
EndsOpen(term) ==
  \/ IsIf(term) /\ (Len(term.parts) = 2 \/ EndsOpen(Last(term.parts)))
  \/ Made(term, {"WhileStmt", "ForStmt"}) /\ EndsOpen(Last(term.parts))

-----------------------------------------------------------------------------
(* The merged tables accept no text that the grammar does not derive, and  *)
(* the reductions of an accepted one are a derivation of it.               *)
AcceptsOnlySentences == result.success => Derivation(Front(read), reductions) \in Sentences[vocabulary]

(* A text is refused only when no sentence goes on from what was read: the *)
(* one conflict, settled in silence for the shift, costs no program.       *)
RefusesNoSentence == result = Failure => read \notin Beginnings[vocabulary]

(* An else belongs to the nearest if that has none.                        *)
ElseBindsNearest ==
  result.success =>
    \A n \in NodesIn(result.root) : IsIf(n) /\ Len(n.parts) = 3 => ~EndsOpen(n.parts[2])

(* GRAMMAR.md heads the statements with "split to remove dangling else":   *)
(* an accepted text has no second derivation.                              *)
OneReading ==
  result.success =>
    \A s \in Sentences[vocabulary] : s.text = Front(read) => s.applied = reductions

=============================================================================
