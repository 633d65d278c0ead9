--------------------------- MODULE LexicalGrammar ---------------------------
(***************************************************************************)
(* The tokens of the language as sets of slices of a text, and the         *)
(* characters of a sequence of bytes, stated without a lexer: what         *)
(* lexer.cpp is compared with.  A slice is given by its first position and *)
(* the position after its last one.                                        *)
(***************************************************************************)
EXTENDS Integers, Sequences, FiniteSets

(* A character is a lead byte with its continuation bytes.  Any other byte *)
(* is a stray one.                                                         *)
Continuation == 128..191
LeadSize(byte) ==
  CASE byte \in 0..127 -> 1
    [] byte \in 192..223 -> 2
    [] byte \in 224..239 -> 3
    [] byte \in 240..247 -> 4
    [] OTHER -> 0
Complete(text, at) ==
  LET size == LeadSize(text[at])
  IN  size > 0 /\ at + size - 1 <= Len(text) /\ \A i \in 1..size - 1 : text[at + i] \in Continuation

(* Where a character or a stray byte begins: not inside a character.       *)
Inside(text, at) == \E q \in 1..at - 1 : Complete(text, q) /\ at < q + LeadSize(text[q])
Starts(text) == {at \in 1..Len(text) : ~Inside(text, at)}

Stray == -1
CharAt(text, at) ==
  LET size == LeadSize(text[at])
      tail(i) == text[at + i] - 128
  IN  CASE ~Complete(text, at) -> Stray
        [] Complete(text, at) /\ size = 1 -> text[at]
        [] Complete(text, at) /\ size = 2 -> (text[at] - 192) * 64 + tail(1)
        [] Complete(text, at) /\ size = 3 -> ((text[at] - 224) * 64 + tail(1)) * 64 + tail(2)
        [] Complete(text, at) /\ size = 4 ->
             (((text[at] - 240) * 64 + tail(1)) * 64 + tail(2)) * 64 + tail(3)

-----------------------------------------------------------------------------
Space == {9, 10, 11, 12, 13, 32, 160}
Newline == 10
LineBreaks == {10, 13}
Quote == 34
Dot == 46
Equals == 61

(* European, Arabic-Indic and Extended Arabic-Indic digits.                *)
Digits == (48..57) \cup (1632..1641) \cup (1776..1785)
(* Letters, "_", digits and all beyond ASCII but the Arabic comma and      *)
(* semicolon.                                                              *)
WordChar(c) ==
  \/ c \in (65..90) \cup (97..122) \cup {95} \cup Digits
  \/ c > 127 /\ c \notin {1548, 1563}

Symbol ==
  [LPAREN |-> {40}, RPAREN |-> {41}, LBRACE |-> {123}, RBRACE |-> {125}, LBRACKET |-> {91},
   RBRACKET |-> {93}, COMMA |-> {44, 1548}, SEMICOLON |-> {1563}, COLON |-> {58}, DOT |-> {46},
   PLUS |-> {43}, MINUS |-> {45}, MUL |-> {42}, DIV |-> {47}, PIPE |-> {124},
   LESS |-> {60}, ASSIGN |-> {61}, GREATER |-> {62}]
SymbolCodes == UNION {Symbol[kind] : kind \in DOMAIN Symbol}
WithEquals ==
  [c \in {33, 60, 61, 62} |->
     CASE c = 33 -> "NOT_EQUAL" [] c = 60 -> "LESS_EQUAL" [] c = 61 -> "EQUAL" [] c = 62 -> "GREATER_EQUAL"]

(* The kind of the token a slice is, "none" if it is not one.  A string is *)
(* broken by a line break, a stray byte or the end of the text.            *)
KindOf(text, from, to, keywords) ==
  LET chars == {at \in from..to - 1 : ~Inside(text, at)}
      c(at) == CharAt(text, at)
      last == CHOOSE at \in chars : \A p \in chars : p <= at
      inner == chars \ {from, last}
      plain(at) == c(at) \notin LineBreaks \cup {Quote, Stray}
  IN CASE \A at \in chars : c(at) \in Space -> "WHITESPACE"
       [] chars = {from} /\ c(from) \in SymbolCodes -> CHOOSE kind \in DOMAIN Symbol : c(from) \in Symbol[kind]
       [] /\ chars = {from, last} /\ last # from
          /\ c(from) \in DOMAIN WithEquals /\ c(last) = Equals -> WithEquals[c(from)]
       [] /\ c(from) \in Digits /\ \A at \in chars : c(at) \in Digits \cup {Dot}
          /\ Cardinality({at \in chars : c(at) = Dot}) <= 1 -> "LIT_NUM"
       [] /\ c(from) = Quote /\ last # from /\ c(last) = Quote
          /\ \A at \in inner : plain(at) -> "LIT_STRING"
       [] /\ c(from) = Quote /\ \A at \in inner : plain(at)
          /\ IF last # from /\ c(last) \in LineBreaks \cup {Stray} THEN TRUE
             ELSE to = Len(text) + 1 /\ (last = from \/ plain(last)) -> "INVALID"
       [] /\ WordChar(c(from)) /\ c(from) \notin Digits \cup Space
          /\ \A at \in chars : WordChar(c(at)) \/ c(at) = Stray ->
            IF SubSeq(text, from, to - 1) \in DOMAIN keywords
            THEN keywords[SubSeq(text, from, to - 1)] ELSE "IDENTIFIER"
       [] /\ chars = {from} /\ ~WordChar(c(from))
          /\ c(from) \notin Space \cup Digits \cup SymbolCodes \cup {Quote} -> "INVALID"
       [] OTHER -> "none"

(* A token is as long as it can be.                                        *)
Longest(text, from, to, keywords) ==
  \A further \in (Starts(text) \cup {Len(text) + 1}) :
    further > to => KindOf(text, from, further, keywords) = "none"

(* Line and column of a position, counted in characters from 1.            *)
LineOf(text, at) ==
  1 + Cardinality({p \in Starts(text) : p < at /\ CharAt(text, p) = Newline})
ColumnOf(text, at) ==
  1 + Cardinality({p \in Starts(text) :
        p < at /\ \A q \in Starts(text) : p <= q /\ q < at => CharAt(text, q) # Newline})
=============================================================================
