--------------------------- MODULE SemanticValues ---------------------------
(***************************************************************************)
(* SemanticValue, the variant the parser's stack holds, and what an action *)
(* makes of its children.  take<T> answers an empty T when the value holds *)
(* another alternative, without a word.  A token is known by its place in  *)
(* the text.                                                               *)
(***************************************************************************)
EXTENDS Actions

Value(alternative, term) == [holds |-> alternative, term |-> term]
Null == [kind |-> "null"]
Leaf(position) == [kind |-> "token", at |-> position]
(* A slip: the branches of an if change places.                          *)
NodeSwapped(name, parts) ==
  [kind |-> "node", node |-> name,
   parts |-> IF name = "IfStmt" /\ Len(parts) = 3 THEN <<parts[1], parts[3], parts[2]>> ELSE parts]
Node(name, parts) == [kind |-> "node", node |-> name, parts |-> parts]
ListOf(parts) == [kind |-> "list", parts |-> parts]
Empty == Value("monostate", Null)

Lists == {"TopLevelList", "StatementList", "ParameterList", "ExpressionList", "TypeExprList",
          "StructFieldList", "EnumVariantList", "StructFieldInitList"}
Nodes == {"ASTNode", "Program", "Statement", "Expression", "Block", "Parameter"}

Holds(value, alternative) ==
  IF alternative = "any node" THEN value.holds \in Nodes ELSE value.holds = alternative
TakeFrom(value, alternative) ==
  IF Holds(value, alternative) THEN value.term
  ELSE IF alternative \in Lists THEN ListOf(<<>>) ELSE Null

(* builders.cpp: what an operator's token means; Add and Not otherwise.    *)
tokenToBinaryOp ==
  [PLUS |-> "Add", MINUS |-> "Sub", MUL |-> "Mul", DIV |-> "Div", KW_AND |-> "And", KW_OR |-> "Or",
   EQUAL |-> "Eq", NOT_EQUAL |-> "Ne", LESS |-> "Lt", LESS_EQUAL |-> "Le", GREATER |-> "Gt",
   GREATER_EQUAL |-> "Ge"]
tokenToUnaryOp == [MINUS |-> "Negate", KW_NOT |-> "Not"]
OperatorAt == [BinaryExpr |-> 2, UnaryExpr |-> 1]
MeaningsOf(node) == IF node = "BinaryExpr" THEN tokenToBinaryOp ELSE tokenToUnaryOp
Meaning(node, kind) ==
  IF kind \in DOMAIN MeaningsOf(node) THEN MeaningsOf(node)[kind]
  ELSE IF node = "BinaryExpr" THEN "Add" ELSE "Not"
Operation(name, parts, read) ==
  LET leaf == parts[OperatorAt[name]]
  IN  Node(name, [parts EXCEPT ![OperatorAt[name]] =
                    [kind |-> "operator", at |-> leaf.at, op |-> Meaning(name, read[leaf.at])]])

(* A sum type grows at its right end.                                      *)
IsSum(term) == term.kind = "node" /\ term.node = "TypeSumExpr"
(* A slip: a variant is put before those that are there.                   *)
appendSumVariantInFront(sum, variant) ==
  IF sum = Null THEN Node("TypeSumExpr", <<variant>>)
  ELSE IF IsSum(sum) THEN Node("TypeSumExpr", <<variant>> \o sum.parts)
  ELSE Node("TypeSumExpr", <<sum, variant>>)
appendSumVariant(sum, variant) ==
  IF sum = Null THEN Node("TypeSumExpr", <<variant>>)
  ELSE IF IsSum(sum) THEN Node("TypeSumExpr", Append(sum.parts, variant))
  ELSE Node("TypeSumExpr", <<sum, variant>>)

Elements(term) == IF term.kind = "list" THEN term.parts ELSE <<term>>

applyAction(action, children, read) ==
  LET parts == [i \in DOMAIN action.keeps |->
                  TakeFrom(children[action.keeps[i]], action.takes[action.keeps[i]])]
  IN Value(action.gives,
       CASE action.makes = "child" -> parts[1]
         [] action.makes = "null" -> Null
         [] action.makes = "list" -> ListOf(FlattenSeq([i \in DOMAIN parts |-> Elements(parts[i])]))
         [] action.makes = "sum" -> appendSumVariant(parts[1], parts[2])
         [] action.makes = "node" /\ action.node \in DOMAIN OperatorAt -> Operation(action.node, parts, read)
         [] action.makes = "node" /\ action.node \notin DOMAIN OperatorAt -> Node(action.node, parts))
=============================================================================
