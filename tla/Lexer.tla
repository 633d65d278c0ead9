-------------------------------- MODULE Lexer --------------------------------
(***************************************************************************)
(* lexer.cpp: getNextToken called until it returns ENDF, and once more.    *)
(* The text is a sequence of bytes, whether it is UTF-8 or not.  A reader  *)
(* (readWhitespace, readLitStr, ...) takes one character at a step.  A     *)
(* lexeme is known by its place in the text.                               *)
(***************************************************************************)
EXTENDS Integers, Sequences, FiniteSets

CONSTANTS Texts,      \* the sources tried
          Keywords    \* kwTable: the bytes of a keyword to its kind

(* tokens.def, without COMMENT, which no text yields.                      *)
TokenType ==
  { "ENDF", "INVALID", "IDENTIFIER", "LIT_NUM", "LIT_STRING",
    "KW_IMPORT", "KW_TYPE", "KW_STRUCT", "KW_ENUM", "KW_FN", "KW_LET", "KW_CONST", "KW_IF",
    "KW_ELSE", "KW_WHILE", "KW_FOR", "KW_RETURN", "KW_BREAK", "KW_CONTINUE", "KW_TRUE",
    "KW_FALSE", "KW_NULL", "KW_INT", "KW_FLOAT", "KW_BOOL", "KW_CHAR", "KW_STRING", "KW_NOT",
    "KW_OR", "KW_AND", "PLUS", "MINUS", "MUL", "DIV", "ASSIGN", "EQUAL", "NOT_EQUAL", "LESS",
    "LESS_EQUAL", "GREATER", "GREATER_EQUAL", "LBRACKET", "RBRACKET", "PIPE", "DOT",
    "WHITESPACE", "LPAREN", "RPAREN", "LBRACE", "RBRACE", "COMMA", "SEMICOLON", "COLON" }

Byte == 0..255
ASSUME TextsAssumption == Texts \subseteq Seq(Byte)
ASSUME KeywordsAssumption == \A word \in DOMAIN Keywords : Keywords[word] \in TokenType

VARIABLES text,      \* source
          pos,       \* bytePos, counted from 1
          line, column,
          reading,   \* the reader getNextToken is in, or "none"
          start,     \* where its token starts: position, line and column
          seenDot,   \* of readLitNum
          tokens     \* returned so far (a history variable)

position == <<pos, line, column>>
vars == <<text, pos, line, column, reading, start, seenDot, tokens>>

(* A bound on the calls after the end of the text.                         *)
MaxEnds == 2

-----------------------------------------------------------------------------
(* decodeNext.                                                             *)
Leads == (0..127) \cup (192..247)
ByteCount(lead) ==
  IF lead \in 192..223 THEN 2 ELSE IF lead \in 224..239 THEN 3
  ELSE IF lead \in 240..247 THEN 4 ELSE 1
IsContinuation(byte) == byte \in 128..191

Codepoint(t, at) ==
  LET n == ByteCount(t[at])
      sixBits(i) == t[at + i] % 64
  IN  IF n = 1 THEN t[at]
      ELSE IF n = 2 THEN (t[at] % 32) * 64 + sixBits(1)
      ELSE IF n = 3 THEN ((t[at] % 16) * 64 + sixBits(1)) * 64 + sixBits(2)
      ELSE (((t[at] % 8) * 64 + sixBits(1)) * 64 + sixBits(2)) * 64 + sixBits(3)

WellFormed(t, at) ==
  /\ t[at] \in Leads
  /\ at + ByteCount(t[at]) - 1 <= Len(t)
  /\ \A i \in 1..ByteCount(t[at]) - 1 : IsContinuation(t[at + i])

Replacement == 65533
(* A slip: a malformed sequence is stepped over as if it were whole.     *)
DecodedWhole(t, at) ==
  IF WellFormed(t, at)
  THEN [codepoint |-> Codepoint(t, at), byteCount |-> ByteCount(t[at]), valid |-> TRUE]
  ELSE [codepoint |-> Replacement, valid |-> FALSE,
        byteCount |-> IF at + ByteCount(t[at]) - 1 <= Len(t) THEN ByteCount(t[at]) ELSE 1]
Decoded(t, at) ==
  IF WellFormed(t, at)
  THEN [codepoint |-> Codepoint(t, at), byteCount |-> ByteCount(t[at]), valid |-> TRUE]
  ELSE [codepoint |-> Replacement, byteCount |-> 1, valid |-> FALSE]

AtEnd == pos > Len(text)
Peeked == Decoded(text, pos)
Peek(codes) == ~AtEnd /\ Peeked.valid /\ Peeked.codepoint \in codes

NewLine == 10
GetChar ==
  /\ pos' = pos + Peeked.byteCount
  /\ IF Peeked.codepoint = NewLine THEN line' = line + 1 /\ column' = 1
     ELSE line' = line /\ column' = column + 1

-----------------------------------------------------------------------------
(* Classes of characters.                                                  *)
IsWhitespace(cp) == cp \in {9, 10, 11, 12, 13, 32, 160}
IsDigit(cp) == cp \in (48..57) \cup (1632..1641) \cup (1776..1785)
IsIdentChar(cp) ==
  \/ cp = 95
  \/ /\ cp \notin {1563, 1548, 46}
     /\ cp \in (97..122) \cup (65..90) \/ IsDigit(cp) \/ cp > 127

QuoteMark == 34
FullStop == 46
EqualsSign == 61

(* singleCharTokens, without = < > which getNextToken handles itself.      *)
Single(cp, kind) == [codepoint |-> cp, kind |-> kind]
singleCharTokens ==
  { Single(40, "LPAREN"), Single(41, "RPAREN"), Single(123, "LBRACE"), Single(125, "RBRACE"),
    Single(91, "LBRACKET"), Single(93, "RBRACKET"), Single(44, "COMMA"), Single(1548, "COMMA"),
    Single(1563, "SEMICOLON"), Single(58, "COLON"), Single(46, "DOT"), Single(43, "PLUS"),
    Single(45, "MINUS"), Single(42, "MUL"), Single(47, "DIV"), Single(124, "PIPE") }
SingleCodes == {s.codepoint : s \in singleCharTokens}

(* The operators that a following = changes.                               *)
Operator(cp, alone, paired) == [codepoint |-> cp, alone |-> alone, paired |-> paired]
Operators ==
  { Operator(61, "ASSIGN", "EQUAL"), Operator(33, "INVALID", "NOT_EQUAL"),
    Operator(60, "LESS", "LESS_EQUAL"), Operator(62, "GREATER", "GREATER_EQUAL") }
OperatorCodes == {o.codepoint : o \in Operators}

-----------------------------------------------------------------------------
Here == [at |-> pos, line |-> line, column |-> column]
Init ==
  /\ text \in Texts
  /\ pos = 1 /\ line = 1 /\ column = 1
  /\ reading = "none"
  /\ start = Here
  /\ seenDot = FALSE
  /\ tokens = <<>>

(* Token{kind, lexeme, start}: the lexeme ends where the cursor is then.   *)
Emit(kind, from) ==
  /\ tokens' = Append(tokens, [kind |-> kind, from |-> from.at, to |-> pos',
                               line |-> from.line, column |-> from.column])
  /\ reading' = "none"

(* getNextToken, up to the reader it calls.                                *)
ReturnEnd ==
  /\ reading = "none" /\ AtEnd
  /\ Cardinality({k \in DOMAIN tokens : tokens[k].kind = "ENDF"}) < MaxEnds
  /\ UNCHANGED position
  /\ Emit("ENDF", Here)
  /\ UNCHANGED <<text, start, seenDot>>

ReturnInvalid ==
  /\ reading = "none" /\ ~AtEnd /\ ~Peeked.valid
  /\ GetChar
  /\ Emit("INVALID", Here)
  /\ UNCHANGED <<text, start, seenDot>>

ReturnSingle ==
  /\ reading = "none"
  /\ \E s \in singleCharTokens : Peek({s.codepoint}) /\ GetChar /\ Emit(s.kind, Here)
  /\ UNCHANGED <<text, start, seenDot>>

Begin(reader) ==
  /\ reading = "none"
  /\ reading' = reader
  /\ start' = Here
  /\ UNCHANGED <<text, tokens>>

BeginWhitespace ==
  Begin("whitespace") /\ ~AtEnd /\ Peeked.valid /\ IsWhitespace(Peeked.codepoint)
  /\ UNCHANGED seenDot /\ UNCHANGED position
BeginString == Begin("string") /\ Peek({QuoteMark}) /\ GetChar /\ UNCHANGED seenDot
BeginNumber ==
  Begin("number") /\ ~AtEnd /\ Peeked.valid /\ IsDigit(Peeked.codepoint)
  /\ seenDot' = FALSE /\ UNCHANGED position
BeginOperator == Begin("operator") /\ Peek(OperatorCodes) /\ GetChar /\ UNCHANGED seenDot
BeginWord ==
  /\ Begin("word") /\ ~AtEnd /\ Peeked.valid
  /\ LET cp == Peeked.codepoint
     IN  ~IsWhitespace(cp) /\ ~IsDigit(cp) /\ cp \notin OperatorCodes \cup SingleCodes \cup {QuoteMark}
  /\ UNCHANGED seenDot /\ UNCHANGED position

-----------------------------------------------------------------------------
(* The readers: take one more character, or return the token.              *)
Take == GetChar /\ UNCHANGED <<text, reading, start, tokens>>
Stay == UNCHANGED position
Return(kind) == Emit(kind, start) /\ UNCHANGED <<text, start, seenDot>>

InWhitespace == ~AtEnd /\ Peeked.valid /\ IsWhitespace(Peeked.codepoint)
ReadWhitespace == reading = "whitespace" /\ InWhitespace /\ Take /\ UNCHANGED seenDot
ReturnWhitespace == reading = "whitespace" /\ ~InWhitespace /\ Stay /\ Return("WHITESPACE")

(* readLitStr consumes what ends the string, whatever it is.               *)
LineBreak == {10, 13}
EndsString == ~Peeked.valid \/ Peeked.codepoint \in LineBreak \cup {QuoteMark}
ReadString == reading = "string" /\ ~AtEnd /\ ~EndsString /\ Take /\ UNCHANGED seenDot
ReturnString ==
  /\ reading = "string" /\ ~AtEnd /\ EndsString
  /\ GetChar
  /\ Return(IF Peek({QuoteMark}) THEN "LIT_STRING" ELSE "INVALID")
ReturnUnterminated == reading = "string" /\ AtEnd /\ Stay /\ Return("INVALID")

InNumber == ~AtEnd /\ Peeked.valid /\ IsDigit(Peeked.codepoint)
ReadDigit == reading = "number" /\ InNumber /\ Take /\ UNCHANGED seenDot
(* A slip: any number of dots.                                           *)
AtDotAgain == Peek({FullStop})
AtDot == Peek({FullStop}) /\ ~seenDot
ReadDot == reading = "number" /\ AtDot /\ Take /\ seenDot' = TRUE
ReturnNumber == reading = "number" /\ ~InNumber /\ ~AtDot /\ Stay /\ Return("LIT_NUM")

(* readWord takes invalid bytes with it; a character that begins no token  *)
(* is consumed alone.                                                      *)
InWord == ~AtEnd /\ (~Peeked.valid \/ IsIdentChar(Peeked.codepoint))
(* A slip: looks at an invalid byte again and again.                     *)
ReadWordStalling ==
  /\ reading = "word" /\ InWord
  /\ IF Peeked.valid THEN GetChar ELSE Stay
  /\ UNCHANGED <<text, reading, start, seenDot, tokens>>
ReadWord == reading = "word" /\ InWord /\ Take /\ UNCHANGED seenDot
Lexeme == SubSeq(text, start.at, pos - 1)
ReturnWord ==
  /\ reading = "word" /\ ~InWord /\ pos > start.at
  /\ Stay
  /\ Return(IF Lexeme \in DOMAIN Keywords THEN Keywords[Lexeme] ELSE "IDENTIFIER")
RefuseWord == reading = "word" /\ ~InWord /\ pos = start.at /\ GetChar /\ Return("INVALID")

ReturnOperator ==
  /\ reading = "operator"
  /\ \E o \in Operators :
       /\ o.codepoint = Decoded(text, start.at).codepoint
       /\ IF Peek({EqualsSign}) THEN GetChar /\ Return(o.paired) ELSE Stay /\ Return(o.alone)

Next ==
  \/ ReturnEnd \/ ReturnInvalid \/ ReturnSingle
  \/ BeginWhitespace \/ BeginString \/ BeginNumber \/ BeginOperator \/ BeginWord
  \/ ReadWhitespace \/ ReturnWhitespace
  \/ ReadString \/ ReturnString \/ ReturnUnterminated
  \/ ReadDigit \/ ReadDot \/ ReturnNumber
  \/ ReadWord \/ ReturnWord \/ RefuseWord
  \/ ReturnOperator
Spec == Init /\ [][Next]_vars
FairSpec == Spec /\ WF_vars(Next)

=============================================================================
