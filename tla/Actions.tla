------------------------------ MODULE Actions ------------------------------
(***************************************************************************)
(* actions.cpp: the semantic actions.  An action takes from each child the *)
(* alternative of SemanticValue it expects, gives one of its own, and      *)
(* makes it of the children it keeps, in an order: it hands one on,        *)
(* collects a list, builds a node of the AST, or gives a null pointer.     *)
(* Source locations are left out.                                          *)
(***************************************************************************)
EXTENDS Sequences, SequencesExt

Action(takes, gives, makes, node, keeps) ==
  [takes |-> takes, gives |-> gives, makes |-> makes, node |-> node, keeps |-> keeps]
Hand(takes, at, gives) == Action(takes, gives, "child", "", <<at>>)
Collect(takes, keeps, list) == Action(takes, list, "list", "", keeps)
Build(node, takes, keeps, gives) == Action(takes, gives, "node", node, keeps)
Missing(gives) == Action(<<>>, gives, "null", "", <<>>)

Tokens(n) == [i \in 1..n |-> "Token"]

-----------------------------------------------------------------------------
(* Top level.                                                              *)
AugmentedStartProgram == Hand(<<"Program">>, 1, "Program")
ProgramFinish == Build("Program", <<"TopLevelList", "Token">>, <<1>>, "Program")
TopLevelListAppend == Collect(<<"TopLevelList", "any node">>, <<1, 2>>, "TopLevelList")
TopLevelListEmpty == Collect(<<>>, <<>>, "TopLevelList")
TopLevelNode == Hand(<<"any node">>, 1, "ASTNode")
TopLevelStatement == Hand(<<"Statement">>, 1, "ASTNode")
ImportDecl == Build("ImportDecl", Tokens(3), <<2>>, "ASTNode")

(* Lists separated by commas: right recursive, the tail comes last.        *)
ListActions(item, list) ==
  [some |-> Hand(<<list>>, 1, list), none |-> Collect(<<>>, <<>>, list),
   build |-> Collect(<<item, list>>, <<1, 2>>, list),
   append |-> Collect(<<"Token", item, list>>, <<2, 3>>, list),
   empty |-> Collect(<<>>, <<>>, list)]
StructFieldLists == ListActions("StructField", "StructFieldList")
EnumVariantLists == ListActions("EnumVariant", "EnumVariantList")
ParameterLists == ListActions("Parameter", "ParameterList")
TypeTupleTails == ListActions("TypeExpr", "TypeExprList")
ArgumentLists == ListActions("Expression", "ExpressionList")
StructFieldInitLists == ListActions("StructFieldInit", "StructFieldInitList")

-----------------------------------------------------------------------------
(* Declarations.                                                           *)
TypeDeclNode == Hand(<<"any node">>, 1, "ASTNode")
StructDecl == Build("StructDecl", Tokens(4) \o <<"StructFieldList">> \o Tokens(2), <<3, 5>>, "ASTNode")
StructField == Build("StructField", Tokens(2) \o <<"TypeExpr">>, <<1, 3>>, "StructField")
EnumDecl == Build("EnumDecl", Tokens(4) \o <<"EnumVariantList">> \o Tokens(2), <<3, 5>>, "ASTNode")
EnumVariant == Build("EnumVariant", <<"Token", "TypeExpr">>, <<1, 2>>, "EnumVariant")
EnumVariantPayloadSome == Hand(<<"Token", "TypeExpr">>, 2, "TypeExpr")
EnumVariantPayloadNone == Missing("TypeExpr")
FunctionDecl ==
  Build("FunctionDecl", Tokens(3) \o <<"ParameterList", "Token", "TypeExpr", "Block">>, <<2, 4, 6, 7>>, "ASTNode")
FunctionReturnTypeSome == Hand(<<"Token", "TypeExpr">>, 2, "TypeExpr")
FunctionReturnTypeNone == Missing("TypeExpr")
ParameterDecl == Build("Parameter", Tokens(2) \o <<"TypeExpr">>, <<1, 3>>, "Parameter")

(* Types.                                                                  *)
TypeNameKeyword == Build("TypePrimitiveExpr", Tokens(1), <<1>>, "TypeExpr")
TypeNameIdentifier == Build("NamedTypeExpr", Tokens(1), <<1>>, "TypeExpr")
TypeNameUnion == Action(<<"TypeExpr", "Token", "TypeExpr">>, "TypeExpr", "sum", "TypeSumExpr", <<1, 3>>)
TypeNameFromPrimary == Hand(<<"TypeExpr">>, 1, "TypeExpr")
TypePrimaryArray == Build("TypeArrayExpr", <<"Token", "TypeExpr", "Token">>, <<2>>, "TypeExpr")
TypePrimaryTuple == Hand(<<"TypeExpr">>, 1, "TypeExpr")
TypePrimaryGrouped == Hand(<<"Token", "TypeExpr", "Token">>, 2, "TypeExpr")
TypeTupleBuild ==
  Build("TypeProductExpr", <<"Token", "TypeExpr", "Token", "TypeExpr", "TypeExprList", "Token">>,
        <<2, 4, 5>>, "TypeExpr")

-----------------------------------------------------------------------------
(* Statements.                                                             *)
BlockBuild == Build("BlockStmt", <<"Token", "StatementList", "Token">>, <<2>>, "Block")
StatementListAppend == Collect(<<"StatementList", "Statement">>, <<1, 2>>, "StatementList")
StatementListEmpty == Collect(<<>>, <<>>, "StatementList")
StatementFromMatched == Hand(<<"Statement">>, 1, "Statement")
StatementFromUnmatched == Hand(<<"Statement">>, 1, "Statement")
PassStatementSemicolon == Hand(<<"Statement", "Token">>, 1, "Statement")
PassStatement == Hand(<<"Statement">>, 1, "Statement")
ExpressionStatement == Build("ExpressionStmt", <<"Expression", "Token">>, <<1>>, "Statement")
BlockStatement == Hand(<<"Block">>, 1, "Statement")
DeclarationStmt ==
  Build("DeclarationStmt", <<"Token", "Token", "TypeExpr", "Token", "Expression">>, <<1, 2, 3, 5>>, "Statement")
TypeAnnotationSome == Hand(<<"Token", "TypeExpr">>, 2, "TypeExpr")
TypeAnnotationNone == Missing("TypeExpr")
AssignmentStmt == Build("AssignmentStmt", Tokens(2) \o <<"Expression">>, <<1, 3>>, "Statement")
AssignmentIndexStmt ==
  Build("IndexAssignmentStmt", <<"Token", "Token", "Expression", "Token", "Token", "Expression">>,
        <<1, 3, 6>>, "Statement")
Conditional == <<"Token", "Token", "Expression", "Token", "Statement">>
IfMatchedFull == Build("IfStmt", Conditional \o <<"Token", "Statement">>, <<3, 5, 7>>, "Statement")
IfUnmatchedNoElse == Build("IfStmt", Conditional, <<3, 5>>, "Statement")
IfUnmatchedWithElse == Build("IfStmt", Conditional \o <<"Token", "Statement">>, <<3, 5, 7>>, "Statement")
WhileStmt == Build("WhileStmt", Conditional, <<3, 5>>, "Statement")
ForStmt == Build("ForStmt", Conditional, <<3, 5>>, "Statement")
ReturnStmt == Build("ReturnStmt", <<"Token", "Expression">>, <<2>>, "Statement")
ReturnExprSome == Hand(<<"Expression">>, 1, "Expression")
ReturnExprNone == Missing("Expression")
BreakStmt == Build("BreakStmt", Tokens(1), <<>>, "Statement")
ContinueStmt == Build("ContinueStmt", Tokens(1), <<>>, "Statement")

(* Expressions.                                                            *)
CallExpression == Build("CallExpr", Tokens(2) \o <<"ExpressionList", "Token">>, <<1, 3>>, "Expression")
ExpressionPass == Hand(<<"Expression">>, 1, "Expression")
FieldAccess == Build("FieldAccessExpr", <<"Expression", "Token", "Token">>, <<1, 3>>, "Expression")
IndexAccess == Build("IndexExpr", <<"Expression", "Token", "Expression", "Token">>, <<1, 3>>, "Expression")
BinaryExpr == Build("BinaryExpr", <<"Expression", "Token", "Expression">>, <<1, 2, 3>>, "Expression")
UnaryPrefix == Build("UnaryExpr", <<"Token", "Expression">>, <<1, 2>>, "Expression")
PrimaryLiteral == Build("LiteralExpr", Tokens(1), <<1>>, "Expression")
PrimaryIdentifier == Build("IdentifierExpr", Tokens(1), <<1>>, "Expression")
PrimaryGrouping == Hand(<<"Token", "Expression", "Token">>, 2, "Expression")
ArrayLiteral == Build("ArrayLiteralExpr", <<"Token", "ExpressionList", "Token">>, <<2>>, "Expression")
StructLiteral ==
  Build("StructLiteralExpr", Tokens(2) \o <<"StructFieldInitList", "Token">>, <<1, 3>>, "Expression")
StructFieldInit == Build("StructFieldInit", Tokens(2) \o <<"Expression">>, <<1, 3>>, "StructFieldInit")
=============================================================================
