---------------------------- MODULE Grammar --------------------------------
(***************************************************************************)
(* The productions of grammar.def, each with its semantic action.          *)
(***************************************************************************)
EXTENDS Actions

Rule(lhs, act, rhs) == << [lhs |-> lhs, act |-> act, rhs |-> rhs] >>
Rules(lhs, act, bodies) == [i \in DOMAIN bodies |-> [lhs |-> lhs, act |-> act, rhs |-> bodies[i]]]

(* Items separated by commas, right recursive.                             *)
Rest(tail, item, actions) ==
  Rule(tail, actions.append, <<"COMMA", item, tail>>) \o Rule(tail, actions.empty, <<>>)
Separated(opt, list, tail, item, actions) ==
  Rule(opt, actions.some, <<list>>) \o Rule(opt, actions.none, <<>>)
  \o Rule(list, actions.build, <<item, tail>>) \o Rest(tail, item, actions)

TopLevelRules ==
  Rule("AugmentedStart", AugmentedStartProgram, <<"Program">>)
  \o Rule("Program", ProgramFinish, <<"TopLevelList", "ENDF">>)
  \o Rule("TopLevelList", TopLevelListAppend, <<"TopLevelList", "TopLevel">>)
  \o Rule("TopLevelList", TopLevelListEmpty, <<>>)
  \o Rules("TopLevel", TopLevelNode, << <<"Import">>, <<"TypeDecl">>, <<"Function">> >>)
  \o Rule("TopLevel", TopLevelStatement, <<"Statement">>)
  \o Rule("Import", ImportDecl, <<"KW_IMPORT", "IDENTIFIER", "SEMICOLON">>)

DeclarationRules ==
  Rules("TypeDecl", TypeDeclNode, << <<"StructDecl">>, <<"EnumDecl">> >>)
  \o Rule("StructDecl", StructDecl, <<"KW_TYPE", "KW_STRUCT", "IDENTIFIER", "LBRACE",
                                      "StructFieldListOpt", "RBRACE", "SEMICOLON">>)
  \o Separated("StructFieldListOpt", "StructFieldList", "StructFieldTail", "StructField", StructFieldLists)
  \o Rule("StructField", StructField, <<"IDENTIFIER", "COLON", "TypeName">>)
  \o Rule("EnumDecl", EnumDecl, <<"KW_TYPE", "KW_ENUM", "IDENTIFIER", "LBRACE",
                                  "EnumVariantListOpt", "RBRACE", "SEMICOLON">>)
  \o Separated("EnumVariantListOpt", "EnumVariantList", "EnumVariantTail", "EnumVariant", EnumVariantLists)
  \o Rule("EnumVariant", EnumVariant, <<"IDENTIFIER", "EnumVariantPayloadOpt">>)
  \o Rule("EnumVariantPayloadOpt", EnumVariantPayloadSome, <<"COLON", "TypeName">>)
  \o Rule("EnumVariantPayloadOpt", EnumVariantPayloadNone, <<>>)
  \o Rule("Function", FunctionDecl, <<"KW_FN", "IDENTIFIER", "LPAREN", "ParameterListOpt", "RPAREN",
                                      "FunctionReturnTypeOpt", "Block">>)
  \o Rule("FunctionReturnTypeOpt", FunctionReturnTypeSome, <<"COLON", "TypeName">>)
  \o Rule("FunctionReturnTypeOpt", FunctionReturnTypeNone, <<>>)
  \o Separated("ParameterListOpt", "ParameterList", "ParameterTail", "Parameter", ParameterLists)
  \o Rule("Parameter", ParameterDecl, <<"IDENTIFIER", "COLON", "TypeName">>)

TypeRules ==
  Rule("TypeName", TypeNameUnion, <<"TypeName", "PIPE", "TypePrimary">>)
  \o Rule("TypeName", TypeNameFromPrimary, <<"TypePrimary">>)
  \o Rules("TypePrimary", TypeNameKeyword, << <<"KW_INT">>, <<"KW_FLOAT">>, <<"KW_BOOL">>,
                                              <<"KW_CHAR">>, <<"KW_STRING">>, <<"KW_NULL">> >>)
  \o Rule("TypePrimary", TypeNameIdentifier, <<"IDENTIFIER">>)
  \o Rule("TypePrimary", TypePrimaryArray, <<"LBRACKET", "TypeName", "RBRACKET">>)
  \o Rule("TypePrimary", TypePrimaryTuple, <<"TypeTuple">>)
  \o Rule("TypePrimary", TypePrimaryGrouped, <<"LPAREN", "TypeName", "RPAREN">>)
  \o Rule("TypeTuple", TypeTupleBuild, <<"LPAREN", "TypeName", "COMMA", "TypeName", "TypeTupleTail", "RPAREN">>)
  \o Rest("TypeTupleTail", "TypeName", TypeTupleTails)

StatementRules ==
  Rule("Block", BlockBuild, <<"LBRACE", "StatementList", "RBRACE">>)
  \o Rule("StatementList", StatementListAppend, <<"StatementList", "Statement">>)
  \o Rule("StatementList", StatementListEmpty, <<>>)
  \o Rule("Statement", StatementFromMatched, <<"MatchedStatement">>)
  \o Rule("Statement", StatementFromUnmatched, <<"UnmatchedStatement">>)
  \o Rules("MatchedStatement", PassStatementSemicolon,
           << <<"Declaration", "SEMICOLON">>, <<"Assignment", "SEMICOLON">>,
              <<"ReturnStatement", "SEMICOLON">>, <<"BreakStatement", "SEMICOLON">>,
              <<"ContinueStatement", "SEMICOLON">> >>)
  \o Rules("MatchedStatement", PassStatement, << <<"WhileStatement">>, <<"ForStatement">>, <<"IfMatched">> >>)
  \o Rule("MatchedStatement", ExpressionStatement, <<"CallExpression", "SEMICOLON">>)
  \o Rule("MatchedStatement", BlockStatement, <<"Block">>)
  \o Rule("UnmatchedStatement", PassStatement, <<"IfUnmatched">>)
  \o Rules("Declaration", DeclarationStmt,
           << <<"KW_LET", "IDENTIFIER", "TypeAnnotationOpt", "ASSIGN", "Expression">>,
              <<"KW_CONST", "IDENTIFIER", "TypeAnnotationOpt", "ASSIGN", "Expression">> >>)
  \o Rule("TypeAnnotationOpt", TypeAnnotationSome, <<"COLON", "TypeName">>)
  \o Rule("TypeAnnotationOpt", TypeAnnotationNone, <<>>)
  \o Rule("Assignment", AssignmentStmt, <<"IDENTIFIER", "ASSIGN", "Expression">>)
  \o Rule("Assignment", AssignmentIndexStmt,
          <<"IDENTIFIER", "LBRACKET", "Expression", "RBRACKET", "ASSIGN", "Expression">>)
  \o Rule("IfMatched", IfMatchedFull, <<"KW_IF", "LPAREN", "Expression", "RPAREN", "MatchedStatement",
                                        "KW_ELSE", "MatchedStatement">>)
  \o Rule("IfUnmatched", IfUnmatchedNoElse, <<"KW_IF", "LPAREN", "Expression", "RPAREN", "Statement">>)
  \o Rule("IfUnmatched", IfUnmatchedWithElse,
          <<"KW_IF", "LPAREN", "Expression", "RPAREN", "MatchedStatement", "KW_ELSE", "UnmatchedStatement">>)
  \o Rule("WhileStatement", WhileStmt, <<"KW_WHILE", "LPAREN", "Expression", "RPAREN", "Statement">>)
  \o Rule("ForStatement", ForStmt, <<"KW_FOR", "LPAREN", "Expression", "RPAREN", "Statement">>)
  \o Rule("ReturnStatement", ReturnStmt, <<"KW_RETURN", "ReturnExpressionOpt">>)
  \o Rule("ReturnExpressionOpt", ReturnExprSome, <<"Expression">>)
  \o Rule("ReturnExpressionOpt", ReturnExprNone, <<>>)
  \o Rule("BreakStatement", BreakStmt, <<"KW_BREAK">>)
  \o Rule("ContinueStatement", ContinueStmt, <<"KW_CONTINUE">>)

(* A level of left associative binary operators over the next level.       *)
Level(lhs, operators, next) ==
  Rules(lhs, BinaryExpr, [i \in DOMAIN operators |-> <<lhs, operators[i], next>>])
  \o Rule(lhs, ExpressionPass, <<next>>)

ExpressionRules ==
  Rule("CallExpression", CallExpression, <<"IDENTIFIER", "LPAREN", "ArgumentListOpt", "RPAREN">>)
  \o Separated("ArgumentListOpt", "ArgumentList", "ArgumentTail", "Expression", ArgumentLists)
  \o Rule("Expression", ExpressionPass, <<"LogicalOr">>)
  \o Level("LogicalOr", <<"KW_OR">>, "LogicalAnd")
  \o Level("LogicalAnd", <<"KW_AND">>, "Equality")
  \o Level("Equality", <<"EQUAL", "NOT_EQUAL">>, "Comparison")
  \o Level("Comparison", <<"LESS", "LESS_EQUAL", "GREATER", "GREATER_EQUAL">>, "Term")
  \o Level("Term", <<"PLUS", "MINUS">>, "Factor")
  \o Level("Factor", <<"MUL", "DIV">>, "Unary")
  \o Rules("Unary", UnaryPrefix, << <<"KW_NOT", "Unary">>, <<"MINUS", "Unary">> >>)
  \o Rule("Unary", ExpressionPass, <<"Postfix">>)
  \o Rule("Postfix", ExpressionPass, <<"Primary">>)
  \o Rule("Postfix", FieldAccess, <<"Postfix", "DOT", "IDENTIFIER">>)
  \o Rule("Postfix", IndexAccess, <<"Postfix", "LBRACKET", "Expression", "RBRACKET">>)
  \o Rules("Primary", PrimaryLiteral,
           << <<"LIT_NUM">>, <<"LIT_STRING">>, <<"KW_TRUE">>, <<"KW_FALSE">>, <<"KW_NULL">> >>)
  \o Rule("Primary", PrimaryIdentifier, <<"IDENTIFIER">>)
  \o Rules("Primary", ExpressionPass, << <<"CallExpression">>, <<"StructLiteral">> >>)
  \o Rule("Primary", PrimaryGrouping, <<"LPAREN", "Expression", "RPAREN">>)
  \o Rule("Primary", ArrayLiteral, <<"LBRACKET", "ArgumentListOpt", "RBRACKET">>)
  \o Rule("StructLiteral", StructLiteral, <<"IDENTIFIER", "LBRACE", "StructFieldInitListOpt", "RBRACE">>)
  \o Separated("StructFieldInitListOpt", "StructFieldInitList", "StructFieldInitTail",
               "StructFieldInit", StructFieldInitLists)
  \o Rule("StructFieldInit", StructFieldInit, <<"IDENTIFIER", "COLON", "Expression">>)

Productions ==
  TopLevelRules \o DeclarationRules \o TypeRules \o StatementRules \o ExpressionRules
=============================================================================
