------------------------------ MODULE MCParser ------------------------------
(* Statements long enough for an else after three nested ones, expressions *)
(* with operators of several levels, calls and indices, declarations with  *)
(* parameters and compound types, imports, bindings and struct literals.   *)
EXTENDS ParserProperties

MCGrammarRules == Productions
MCActionTable == LALRActions
MCGotoTable == LALRGotos
MCItemSets == LALRItems
MCStart == LALRStart

MCStatements ==
  [tokens |-> {"KW_IF", "KW_ELSE", "KW_WHILE", "LPAREN", "RPAREN", "KW_TRUE", "KW_BREAK", "SEMICOLON",
               "INVALID"},
   length |-> 18]
MCExpressions ==
  [tokens |-> {"SEMICOLON", "IDENTIFIER", "MUL", "MINUS", "LPAREN", "RPAREN",
               "LBRACKET", "RBRACKET", "COMMA", "ASSIGN"},
   length |-> 8]
MCTypes ==
  [tokens |-> {"KW_TYPE", "KW_STRUCT", "KW_ENUM", "IDENTIFIER", "LBRACE", "RBRACE", "COLON",
               "COMMA", "PIPE", "SEMICOLON"},
   length |-> 14]
MCFunctions ==
  [tokens |-> {"KW_FN", "KW_INT", "IDENTIFIER", "LPAREN", "RPAREN", "LBRACE", "RBRACE", "COLON", "COMMA"},
   length |-> 12]
MCBindings ==
  [tokens |-> {"KW_IMPORT", "KW_LET", "KW_RETURN", "IDENTIFIER", "LIT_NUM", "KW_NOT", "ASSIGN",
               "SEMICOLON", "DOT", "LBRACE", "RBRACE", "COLON"},
   length |-> 7]
MCStructLiterals ==
  [tokens |-> {"KW_RETURN", "IDENTIFIER", "SEMICOLON", "LBRACE", "RBRACE", "COLON", "COMMA"},
   length |-> 12]
MCNested == {MCStatements}
MCVocabularies ==
  {MCStatements, MCExpressions, MCTypes, MCFunctions, MCBindings, MCStructLiterals}
=============================================================================
