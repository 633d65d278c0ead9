--------------------------- MODULE LexerProperties ---------------------------
(***************************************************************************)
(* The lexer against the token language of LexicalGrammar, and against     *)
(* GRAMMAR.md.                                                             *)
(***************************************************************************)
EXTENDS Lexer, LexicalGrammar

(* A text is tokenised as the token language says: each token begins where *)
(* the one before it ends, is of the kind its bytes have, is the longest   *)
(* there is at its place, and carries the line and column it begins at;    *)
(* ENDF is at the end.  Several readers, each with its own way to stop,    *)
(* and the mode they are entered in decide this together.                  *)
Tokenised ==
  \A k \in DOMAIN tokens :
    LET token == tokens[k]
    IN  /\ token.from = IF k = 1 THEN 1 ELSE tokens[k - 1].to
        /\ token.line = LineOf(text, token.from) /\ token.column = ColumnOf(text, token.from)
        /\ IF token.from > Len(text) THEN token.kind = "ENDF" /\ token.to = token.from
           ELSE /\ token.kind = KindOf(text, token.from, token.to, Keywords)
                /\ Longest(text, token.from, token.to, Keywords)

(* No token ends inside a character, however malformed the bytes around it *)
(* are: decodeNext steps over a broken sequence byte by byte.              *)
NeverSplits ==
  \A k \in DOMAIN tokens : tokens[k].to \in Starts(text) \cup {Len(text) + 1}

(* Every text is tokenised to its end: no byte stops the lexer.            *)
Ends == <>(tokens # <<>> /\ tokens[Len(tokens)].kind = "ENDF")

(* GRAMMAR.md has identifier ::= LETTER { LETTER | DIGIT | "_" }.  A       *)
(* letter is at least no white space and no stray byte.                    *)
IdentifiersAreWords ==
  \A k \in DOMAIN tokens :
    tokens[k].kind = "IDENTIFIER" =>
      \A at \in Starts(text) :
        tokens[k].from <= at /\ at < tokens[k].to => CharAt(text, at) \notin Space \cup {Stray}
=============================================================================
