------------------------------- MODULE Parser -------------------------------
(***************************************************************************)
(* parser.cpp: the table-driven parser, with the abstract syntax its       *)
(* semantic actions build.  The rules and the tables are parameters, of    *)
(* which the assumptions below say what the parser relies on.  The lexer   *)
(* delivers any token of a vocabulary, up to a length, and ENDF from then  *)
(* on; white space and comments, which nextToken skips, are left out.      *)
(***************************************************************************)
EXTENDS RuleSets, SemanticValues, SequencesExt

CONSTANTS GrammarRules,   \* the productions, each with its semantic action
          ActionTable,    \* kGeneratedActionTable, a row for each state
          GotoTable,      \* kGeneratedGotoTable
          ItemSets,       \* <<rule, dot>>: the items each state stands for
          Start,          \* the state at the bottom of the stack
          Vocabularies    \* the token sets tried, each with a longest text

None == "none"

ASSUME VocabulariesAssumption ==
  \A v \in Vocabularies : v.length \in Nat /\ None \notin v.tokens

Terminals == TokensOf(GrammarRules)
States == DOMAIN ItemSets

(* What a value pushed for a symbol may hold.                              *)
Given(symbol) ==
  IF symbol \in NonTerminals(GrammarRules)
  THEN {GrammarRules[i].act.gives : i \in RulesOf(GrammarRules, symbol)}
  ELSE {"Token"}

(* A rule and its action agree: the action takes from each child what any  *)
(* rule of that symbol gives; an operator it looks up is a token that has  *)
(* a meaning.                                                              *)
TakesAgree(rule) ==
  /\ Len(rule.act.takes) = Len(rule.rhs)
  /\ \A k \in DOMAIN rule.rhs : \A gives \in Given(rule.rhs[k]) :
       Holds(Value(gives, Null), rule.act.takes[k])
OperatorsAgree(rule) ==
  rule.act.node \in DOMAIN OperatorAt =>
    /\ OperatorAt[rule.act.node] \in DOMAIN rule.rhs
    /\ rule.rhs[OperatorAt[rule.act.node]] \in Terminals \cap DOMAIN MeaningsOf(rule.act.node)

(* The first rule is the augmented start, and every Program is a node.     *)
ASSUME GrammarAssumption ==
  /\ 1 \in DOMAIN GrammarRules /\ GrammarRules[1].rhs = <<"Program">>
  /\ \A i \in DOMAIN GrammarRules :
       /\ GrammarRules[i].rhs \in Seq(Symbols(GrammarRules[i]))
       /\ TakesAgree(GrammarRules[i]) /\ OperatorsAgree(GrammarRules[i])
  /\ "Program" \in NonTerminals(GrammarRules)
  /\ \A i \in RulesOf(GrammarRules, "Program") :
       LET act == GrammarRules[i].act
       IN act.makes = "node" /\ act.node = "Program" /\ act.gives \in Nodes

(* What leaves no trace in the AST: punctuation, and the keywords that a   *)
(* rule implies.  An action keeps the other children, in their order.      *)
Dropped == {"ENDF", "LPAREN", "RPAREN", "LBRACE", "RBRACE", "LBRACKET", "RBRACKET",
            "COMMA", "SEMICOLON", "COLON", "DOT", "ASSIGN", "PIPE",
            "KW_IMPORT", "KW_TYPE", "KW_STRUCT", "KW_ENUM", "KW_FN", "KW_IF", "KW_ELSE",
            "KW_WHILE", "KW_FOR", "KW_RETURN", "KW_BREAK", "KW_CONTINUE"}
Makes == [child |-> {1}, null |-> {0}, sum |-> {2}, list |-> Nat, node |-> Nat]
KeepsAgree(rule) ==
  LET act == rule.act
  IN  /\ act.keeps \in Seq(DOMAIN rule.rhs)
      /\ \A i, j \in DOMAIN act.keeps : i < j => act.keeps[i] < act.keeps[j]
      /\ \A k \in DOMAIN rule.rhs \ Range(act.keeps) : rule.rhs[k] \in Terminals \cap Dropped
      /\ act.makes \in DOMAIN Makes /\ Len(act.keeps) \in Makes[act.makes]
      /\ act.node \in DOMAIN OperatorAt =>
           /\ OperatorAt[act.node] \in DOMAIN act.keeps
           /\ act.keeps[OperatorAt[act.node]] = OperatorAt[act.node]
ASSUME ActionsAssumption == \A i \in DOMAIN GrammarRules : KeepsAgree(GrammarRules[i])

(* The items of a state whose dot has moved come, by the symbol it moved   *)
(* over, from the items of the state below.  A reduction is that of a      *)
(* complete item, and where a rule may begin its left side has a goto.     *)
Follows(q, symbol, to) ==
  /\ to \in States \ {Start}
  /\ \A item \in ItemSets[to] :
       item[2] > 0 => /\ GrammarRules[item[1]].rhs[item[2]] = symbol
                      /\ <<item[1], item[2] - 1>> \in ItemSets[q]
Justified(q, token, entry) ==
  /\ entry.do = "shift" => Follows(q, token, entry.to)
  /\ entry.do = "reduce" =>
       /\ entry.to \in DOMAIN GrammarRules \ {1}
       /\ <<entry.to, Len(GrammarRules[entry.to].rhs)>> \in ItemSets[q]
  /\ entry.do = "accept" => <<1, 1>> \in ItemSets[q]
Continues(q, item) ==
  /\ item[1] \in DOMAIN GrammarRules
  /\ item[2] \in 0..Len(GrammarRules[item[1]].rhs)
  /\ item = <<1, 0>> => q = Start
  /\ item[1] # 1 /\ item[2] = 0 => GrammarRules[item[1]].lhs \in DOMAIN GotoTable[q]

ASSUME TablesAssumption ==
  /\ Start \in States /\ DOMAIN ActionTable = States /\ DOMAIN GotoTable = States
  /\ \A item \in ItemSets[Start] : item[2] = 0
  /\ \A q \in States :
       /\ DOMAIN ActionTable[q] \subseteq Terminals
       /\ \A token \in DOMAIN ActionTable[q] : Justified(q, token, ActionTable[q][token])
       /\ \A symbol \in DOMAIN GotoTable[q] : Follows(q, symbol, GotoTable[q][symbol])
       /\ \A item \in ItemSets[q] : Continues(q, item)

VARIABLES vocabulary,   \* the one of this text
          read,         \* the tokens delivered so far
          lookahead,    \* the token not yet shifted, or None
          stack,        \* pairs of a table state and a semantic value
          result,       \* of parse(), once it has returned
          reductions    \* the rules reduced so far (a history variable)

vars == <<vocabulary, read, lookahead, stack, result, reductions>>

Parsing == [done |-> FALSE, success |-> FALSE]
Failure == [done |-> TRUE, success |-> FALSE]
Success(value) == [done |-> TRUE, success |-> TRUE, root |-> TakeFrom(value, "any node")]

PerformReduction(rule, children) == applyAction(rule.act, children, read)

Init ==
  /\ vocabulary \in Vocabularies
  /\ read = <<>>
  /\ lookahead = None
  /\ stack = <<[state |-> Start, value |-> Empty]>>
  /\ result = Parsing
  /\ reductions = <<>>

Top == Last(stack)
Cell ==
  LET row == ActionTable[Top.state]
  IN IF lookahead \in DOMAIN row THEN row[lookahead] ELSE Entry("error", 0)
Decision(kind) ==
  IF result.done \/ lookahead = None THEN {} ELSE {entry \in {Cell} : entry.do = kind}

(* ensureLookahead, with the lexer: any token, ENDF once the text ends.    *)
Ended == read # <<>> /\ Last(read) = "ENDF"
(* A slip: nothing comes after the first ENDF.                           *)
DeliverableOnce ==
  IF Ended THEN {} ELSE vocabulary.tokens \cup {"ENDF"}
Deliverable ==
  IF Ended \/ Len(read) + 1 >= vocabulary.length THEN {"ENDF"} ELSE vocabulary.tokens \cup {"ENDF"}
EnsureLookahead ==
  /\ ~result.done /\ lookahead = None
  /\ \E token \in Deliverable : lookahead' = token /\ read' = Append(read, token)
  /\ UNCHANGED <<vocabulary, stack, result, reductions>>

ShiftToken ==
  /\ \E entry \in Decision("shift") :
        stack' = Append(stack, [state |-> entry.to, value |-> Value("Token", Leaf(Len(read)))])
  /\ lookahead' = None
  /\ UNCHANGED <<vocabulary, read, result, reductions>>

(* The goto row under the children of a rule, if there is a state there.   *)
RowUnder(base) == IF base = <<>> THEN <<>> ELSE GotoTable[Last(base).state]
Popped(n) == SubSeq(stack, 1, Len(stack) - n)
(* A slip: the children come in the order they were popped.              *)
ChildrenAsPopped(n) == [i \in 1..n |-> stack[Len(stack) + 1 - i].value]
Children(n) == [i \in 1..n |-> stack[Len(stack) - n + i].value]
Goto(rule, base, row, value) ==
  \/ /\ rule.lhs \in DOMAIN row
     /\ stack' = Append(base, [state |-> row[rule.lhs], value |-> value])
     /\ UNCHANGED result
  \/ /\ rule.lhs \notin DOMAIN row
     /\ stack' = base /\ result' = Failure

(* A slip: pops one entry too many.                                      *)
ReduceRuleGreedy ==
  /\ \E entry \in Decision("reduce") :
       /\ \E rule \in {GrammarRules[entry.to]}, base \in {Popped(Len(GrammarRules[entry.to].rhs) + 1)} :
            \E row \in {RowUnder(base)} :
              Goto(rule, base, row, PerformReduction(rule, Children(Len(rule.rhs))))
       /\ reductions' = Append(reductions, entry.to)
  /\ UNCHANGED <<vocabulary, read, lookahead>>

(* The children are popped; a stack that ends with them, or a state without *)
(* a goto for the rule, fails.                                             *)
ReduceRule ==
  /\ \E entry \in Decision("reduce") :
       /\ \E rule \in {GrammarRules[entry.to]} : \E base \in {Popped(Len(rule.rhs))} :
            \E row \in {RowUnder(base)} :
              Goto(rule, base, row, PerformReduction(rule, Children(Len(rule.rhs))))
       /\ reductions' = Append(reductions, entry.to)
  /\ UNCHANGED <<vocabulary, read, lookahead>>

(* A slip: accepts whenever the text is over.                            *)
AcceptTextAtEnd ==
  /\ ~result.done /\ lookahead = "ENDF"
  /\ result' = Success(Top.value)
  /\ UNCHANGED <<vocabulary, read, lookahead, stack, reductions>>
AcceptText ==
  /\ Decision("accept") # {}
  /\ result' = Success(Top.value)
  /\ UNCHANGED <<vocabulary, read, lookahead, stack, reductions>>

RefuseText ==
  /\ Decision("error") # {}
  /\ result' = Failure
  /\ UNCHANGED <<vocabulary, read, lookahead, stack, reductions>>

Next == EnsureLookahead \/ ShiftToken \/ ReduceRule \/ AcceptText \/ RefuseText
Spec == Init /\ [][Next]_vars
FairSpec == Spec /\ WF_vars(Next)

-----------------------------------------------------------------------------
Made(term, names) == term.kind = "node" /\ term.node \in names

(* Every action finds in each child the alternative it takes, and every    *)
(* operator it meets has a meaning: take<T> would answer an empty value in *)
(* silence, and a default operator would stand in.  What parse() delivers  *)
(* is a program.                                                           *)
TakesWhatItHolds ==
  /\ \A entry \in Decision("reduce") : \A rule \in {GrammarRules[entry.to]} :
       /\ Len(rule.act.takes) = Len(rule.rhs)
       /\ \A child \in {Children(Len(rule.rhs))} :
            /\ \A i \in DOMAIN child : Holds(child[i], rule.act.takes[i])
            /\ rule.act.node \in DOMAIN OperatorAt =>
                 read[child[OperatorAt[rule.act.node]].term.at] \in DOMAIN MeaningsOf(rule.act.node)
  /\ result.success => Made(result.root, {"Program"})

(* The terms in the trees of some terms, to a depth.                       *)
Parts(term) == IF term.kind \in {"node", "list"} THEN term.parts ELSE <<>>
Opened(terms) == UNION {Range(Parts(t)) : t \in terms}
Below(terms, depth) ==
  LET below[n \in Nat] == IF n = 0 THEN terms ELSE below[n - 1] \cup Opened(below[n - 1])
  IN  below[depth]

(* The places in the text of the tokens a term holds.                      *)
Tokenlike == {"token", "operator"}
Positions(terms, depth) == {t.at : t \in {t \in Below(terms, depth) : t.kind \in Tokenlike}}
Ascending(terms, depth) ==
  \A j \in DOMAIN terms :
    \A q \in Positions({terms[j]}, depth), p \in Positions({terms[i] : i \in 1..(j - 1)}, depth) : p < q

(* Whenever parse() asks for a token and when it has returned, the values  *)
(* on the stack hold every shifted token that the AST keeps, once and in   *)
(* the order of the text, in the parts of every node and from value to     *)
(* value: arguments, fields and statements do not change places.           *)
Shifted == IF lookahead = None THEN Len(read) ELSE Len(read) - 1
HeldTerms == [k \in DOMAIN stack |-> stack[k].value.term]
SourceOrder ==
  lookahead = None \/ result.done => \E depth \in 0..(Len(reductions) + 1) : \E all \in {Below(Range(HeldTerms), depth)} :
    /\ Opened(all) \subseteq all
    /\ Ascending(HeldTerms, depth) /\ \A t \in all : Ascending(Parts(t), depth)
    /\ {k \in 1..Shifted : read[k] \notin Dropped} \subseteq Positions(Range(HeldTerms), depth)

(* parse() fails only at an empty cell of the action table: the stack is   *)
(* never short of the children of a rule, and every reduction finds its    *)
(* goto.                                                                   *)
FailsOnlyAtACell == [][result' = Failure => UNCHANGED <<stack, reductions>>]_vars

(* Every text is answered: no chain of empty or unit rules goes on for     *)
(* ever, and no cell is left with two reductions.                          *)
Answers == <>result.done
=============================================================================
