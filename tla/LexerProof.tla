------------------------------ MODULE LexerProof ------------------------------
(***************************************************************************)
(* Theorems about Lexer, for every set of texts and every keyword table:   *)
(* tokens begin and end at characters, they tile the text, and they are    *)
(* the tokens of LexicalGrammar.                                           *)
(*                                                                         *)
(* The argument: the cursor never stands inside a character (Outside), and *)
(* a reader entered on the strength of a character still stands before     *)
(* that character until it has taken one (Entered).  What it has taken so  *)
(* far is of its kind (Taken), so it stops where the token does.           *)
(***************************************************************************)
EXTENDS LexerProperties, FiniteSetTheorems, WellFoundedInduction, TLAPS

(* The tokens follow one another without a gap, and only ENDF is empty.    *)
Tiled ==
  \A k \in DOMAIN tokens :
    /\ tokens[k].from = IF k = 1 THEN 1 ELSE tokens[k - 1].to
    /\ tokens[k].kind = "ENDF" \/ tokens[k].from < tokens[k].to

Readers == {"none", "whitespace", "string", "number", "word", "operator"}
Outside(t, at) == at \in 1..Len(t) + 1 /\ ~Inside(t, at)

TypeInv ==
  /\ text \in Seq(Byte)
  /\ Outside(text, pos)
  /\ reading \in Readers
  /\ start.at \in 1..pos
  /\ tokens \in Seq([kind : TokenType, from : Int, to : Int, line : Int, column : Int])
  /\ line \in Int /\ column \in Int
  /\ start \in [at : Int, line : Int, column : Int]

(* Where the next token begins.                                            *)
Mark == IF reading = "none" THEN pos ELSE start.at
TokensInv ==
  /\ \A k \in DOMAIN tokens : Outside(text, tokens[k].to)
  /\ Tiled
  /\ Mark = IF tokens = <<>> THEN 1 ELSE tokens[Len(tokens)].to
Entered ==
  /\ reading \in {"string", "operator"} => start.at < pos
  /\ reading = "whitespace" /\ start.at = pos => InWhitespace
  /\ reading = "number" /\ start.at = pos => InNumber
  /\ reading = "word" /\ start.at = pos => ~AtEnd

IInv == TypeInv /\ TokensInv /\ Entered

-----------------------------------------------------------------------------
(* decodeNext's classes of lead bytes are those of the characters.         *)
LEMMA SizesAgree ==
  ASSUME NEW byte \in Byte
  PROVE  /\ byte \in Leads => ByteCount(byte) = LeadSize(byte)
         /\ byte \in Leads <=> LeadSize(byte) > 0
         /\ ByteCount(byte) \in 1..4
         /\ IsContinuation(byte) <=> byte \in Continuation
         /\ byte \in Continuation => LeadSize(byte) = 0
PROOF
<1>1. CASE byte \in 0..127
  BY <1>1 DEF Byte, Leads, ByteCount, LeadSize, IsContinuation, Continuation
<1>2. CASE byte \in 128..191
  BY <1>2 DEF Byte, Leads, ByteCount, LeadSize, IsContinuation, Continuation
<1>3. CASE byte \in 192..223
  BY <1>3 DEF Byte, Leads, ByteCount, LeadSize, IsContinuation, Continuation
<1>4. CASE byte \in 224..239
  BY <1>4 DEF Byte, Leads, ByteCount, LeadSize, IsContinuation, Continuation
<1>5. CASE byte \in 240..247
  BY <1>5 DEF Byte, Leads, ByteCount, LeadSize, IsContinuation, Continuation
<1>6. CASE byte \in 248..255
  BY <1>6 DEF Byte, Leads, ByteCount, LeadSize, IsContinuation, Continuation
<1> QED BY <1>1, <1>2, <1>3, <1>4, <1>5, <1>6 DEF Byte

(* decodeNext decodes exactly the complete sequences.                      *)
LEMMA WellFormedIsComplete ==
  ASSUME NEW t \in Seq(Byte), NEW at \in 1..Len(t)
  PROVE  WellFormed(t, at) <=> Complete(t, at)
PROOF
<1>1. t[at] \in Byte
  OBVIOUS
<1>2. CASE t[at] \in Leads
  <2>1. /\ ByteCount(t[at]) = LeadSize(t[at]) /\ LeadSize(t[at]) > 0
        /\ ByteCount(t[at]) \in 1..4
    BY <1>1, <1>2, SizesAgree
  <2>2. ASSUME at + LeadSize(t[at]) - 1 <= Len(t), NEW i \in 1..LeadSize(t[at]) - 1
        PROVE  IsContinuation(t[at + i]) <=> t[at + i] \in Continuation
    <3>1. at + i \in 1..Len(t)
      BY <2>1, <2>2
    <3>2. t[at + i] \in Byte
      BY <3>1
    <3> QED BY <3>2, SizesAgree
  <2> QED BY <1>2, <2>1, <2>2 DEF WellFormed, Complete
<1>3. CASE t[at] \notin Leads
  <2>1. ~(LeadSize(t[at]) > 0)
    BY <1>1, <1>3, SizesAgree
  <2> QED BY <1>3, <2>1 DEF WellFormed, Complete
<1> QED BY <1>2, <1>3

(* A step of getChar from outside a character ends outside one.            *)
LEMMA Steps ==
  ASSUME NEW t \in Seq(Byte), NEW at \in 1..Len(t), ~Inside(t, at)
  PROVE  /\ at + Decoded(t, at).byteCount \in at + 1..Len(t) + 1
         /\ ~Inside(t, at + Decoded(t, at).byteCount)
PROOF
<1> DEFINE n == Decoded(t, at).byteCount
<1>1. t[at] \in Byte
  OBVIOUS
<1>2. n \in 1..4 /\ at + n - 1 <= Len(t)
  BY <1>1, SizesAgree DEF Decoded, WellFormed
<1>3. ASSUME NEW q \in 1..at + n - 1, Complete(t, q), at + n < q + LeadSize(t[q])
      PROVE  FALSE
  <2>1. q \in 1..Len(t) /\ t[q] \in Byte
    BY <1>2, <1>3
  <2>2. LeadSize(t[q]) \in Nat /\ LeadSize(t[q]) > 0
    BY <1>3, <2>1 DEF Complete, LeadSize, Byte
  <2>3. CASE q < at
    <3>1. q \in 1..at - 1 /\ at < q + LeadSize(t[q])
      BY <1>2, <1>3, <2>1, <2>2, <2>3
    <3> QED BY <1>3, <3>1 DEF Inside
  <2>4. CASE q = at
    <3>1. WellFormed(t, at)
      BY <1>3, <2>4, WellFormedIsComplete
    <3>2. n = ByteCount(t[at]) /\ t[at] \in Leads
      BY <3>1 DEF Decoded, WellFormed
    <3>3. n = LeadSize(t[at])
      BY <1>1, <3>2, SizesAgree
    <3> QED BY <1>2, <1>3, <2>2, <2>4, <3>3
  <2>5. CASE q > at
    <3>1. n # 1
      BY <1>2, <1>3, <2>5
    <3>2. WellFormed(t, at) /\ n = ByteCount(t[at])
      BY <3>1 DEF Decoded
    <3>3. q - at \in 1..n - 1
      BY <1>2, <1>3, <2>5
    <3>4. IsContinuation(t[at + (q - at)])
      BY <3>2, <3>3 DEF WellFormed
    <3>5. t[q] \in Continuation
      BY <2>1, <3>4, SizesAgree
    <3> QED BY <2>1, <2>2, <3>5, SizesAgree
  <2> QED BY <1>2, <2>1, <2>3, <2>4, <2>5
<1>4. n \in Int
  BY <1>2
<1> HIDE DEF n
<1>5. ~Inside(t, at + n)
  BY <1>3, <1>4 DEF Inside
<1> QED BY <1>2, <1>4, <1>5 DEF n

-----------------------------------------------------------------------------
(* What the parts of an action do to the invariant.                        *)
LEMMA GetCharLemma ==
  ASSUME TypeInv, ~AtEnd, GetChar, text' = text
  PROVE  /\ pos < pos' /\ Outside(text', pos')
         /\ line' \in Int /\ column' \in Int
PROOF
<1>1. pos \in 1..Len(text) /\ ~Inside(text, pos) /\ text \in Seq(Byte)
  BY DEF TypeInv, Outside, AtEnd
<1>2. /\ pos + Peeked.byteCount \in pos + 1..Len(text) + 1
      /\ ~Inside(text, pos + Peeked.byteCount)
  BY <1>1, Steps DEF Peeked
<1>3. pos' = pos + Peeked.byteCount
  BY DEF GetChar
<1>4. line' \in Int /\ column' \in Int
  BY DEF GetChar, TypeInv
<1> QED BY <1>1, <1>2, <1>3, <1>4 DEF Outside

(* A token is returned, and the next one begins where it ends.             *)
LEMMA EmitLemma ==
  ASSUME TypeInv, TokensInv, text' = text, Outside(text', pos'), line' \in Int, column' \in Int,
         NEW kind \in TokenType, NEW from \in [at : Int, line : Int, column : Int],
         Emit(kind, from), from.at = Mark, from.at \in 1..pos', kind = "ENDF" \/ from.at < pos',
         start' \in [at : Int, line : Int, column : Int], start'.at \in 1..pos'
  PROVE  IInv'
PROOF
<1> DEFINE token == [kind |-> kind, from |-> from.at, to |-> pos', line |-> from.line, column |-> from.column]
<1>1. tokens' = Append(tokens, token) /\ reading' = "none"
  BY DEF Emit
<1>2. token \in [kind : TokenType, from : Int, to : Int, line : Int, column : Int]
  BY DEF Outside
<1>3. tokens' \in Seq([kind : TokenType, from : Int, to : Int, line : Int, column : Int])
  BY <1>1, <1>2 DEF TypeInv
<1>4. TypeInv'
  BY <1>1, <1>3 DEF TypeInv, Readers
<1>5. Entered'
  BY <1>1 DEF Entered
<1>6. /\ Len(tokens') = Len(tokens) + 1 /\ tokens' # <<>>
      /\ tokens'[Len(tokens')] = token
      /\ \A k \in 1..Len(tokens) : tokens'[k] = tokens[k]
      /\ DOMAIN tokens' = 1..Len(tokens) + 1 /\ DOMAIN tokens = 1..Len(tokens)
      /\ Len(tokens) \in Nat /\ (tokens = <<>> <=> Len(tokens) = 0)
  BY <1>1, <1>2 DEF TypeInv
<1> HIDE DEF token
<1>7. /\ token.from = from.at /\ token.to = pos' /\ token.kind = kind
  BY DEF token
<1>8. ASSUME NEW k \in DOMAIN tokens'
      PROVE  /\ Outside(text', tokens'[k].to)
             /\ tokens'[k].from = IF k = 1 THEN 1 ELSE tokens'[k - 1].to
             /\ tokens'[k].kind = "ENDF" \/ tokens'[k].from < tokens'[k].to
  <2>1. CASE k \in 1..Len(tokens)
    <3>1. tokens'[k] = tokens[k] /\ (k # 1 => tokens'[k - 1] = tokens[k - 1])
      BY <1>6, <2>1
    <3>2. k \in DOMAIN tokens
      BY <1>6, <2>1
    <3> QED BY <3>1, <3>2 DEF TokensInv, Tiled, Outside
  <2>2. CASE k = Len(tokens) + 1
    <3>1. tokens'[k] = token
      BY <1>6, <2>2
    <3>2. k # 1 => tokens'[k - 1] = tokens[Len(tokens)]
      BY <1>6, <2>2
    <3>3. token.from = IF k = 1 THEN 1 ELSE tokens'[k - 1].to
      BY <1>6, <1>7, <2>2, <3>2 DEF TokensInv
    <3>4. Outside(text', token.to) /\ (token.kind = "ENDF" \/ token.from < token.to)
      BY <1>7
    <3> QED BY <3>1, <3>3, <3>4
  <2> QED BY <1>6, <2>1, <2>2
<1>9. TokensInv'
  <2>1. Mark' = pos'
    BY <1>1 DEF Mark
  <2>2. Mark' = IF tokens' = <<>> THEN 1 ELSE tokens'[Len(tokens')].to
    BY <1>6, <1>7, <2>1
  <2> QED BY <1>8, <2>2 DEF TokensInv, Tiled
<1> QED BY <1>4, <1>5, <1>9 DEF IInv

(* No token is returned.                                                   *)
LEMMA KeepLemma ==
  ASSUME TypeInv, TokensInv, text' = text, Outside(text', pos'), line' \in Int, column' \in Int,
         tokens' = tokens, Mark' = Mark, reading' \in Readers, Entered',
         start' \in [at : Int, line : Int, column : Int], start'.at \in 1..pos'
  PROVE  IInv'
PROOF
<1>1. TypeInv'
  BY DEF TypeInv
<1>2. TokensInv'
  BY DEF TokensInv, Tiled, Outside
<1> QED BY <1>1, <1>2 DEF IInv

-----------------------------------------------------------------------------
(* What Return does: the token starts where its reader began.              *)
LEMMA ReturnLemma ==
  ASSUME IInv, NEW kind \in TokenType, Return(kind), reading # "none",
         Outside(text, pos)', line' \in Int, column' \in Int, start.at < pos'
  PROVE  IInv'
PROOF
<1>1. /\ text' = text /\ start' = start /\ Emit(kind, start)
  BY DEF Return
<1>2. /\ TypeInv /\ TokensInv /\ start.at = Mark
      /\ start \in [at : Int, line : Int, column : Int] /\ start.at \in Int /\ start.at >= 1
  BY DEF IInv, TypeInv, Mark, Outside
<1>3. start.at \in 1..pos' /\ start'.at \in 1..pos'
  BY <1>1, <1>2 DEF Outside
<1> QED BY <1>1, <1>2, <1>3, EmitLemma

(* A token returned where the reader has not moved since the last look.    *)
LEMMA StayLemma ==
  ASSUME IInv, Stay
  PROVE  Outside(text, pos') /\ line' \in Int /\ column' \in Int /\ pos' = pos
PROOF
<1> QED BY DEF IInv, TypeInv, Stay, position

(* A reader takes a character.                                             *)
LEMMA TakeLemma ==
  ASSUME IInv, ~AtEnd, Take, reading \in Readers \ {"none"}
  PROVE  IInv'
PROOF
<1>1. /\ text' = text /\ reading' = reading /\ start' = start /\ tokens' = tokens /\ GetChar
  BY DEF Take
<1>2. pos < pos' /\ Outside(text', pos') /\ line' \in Int /\ column' \in Int
  BY <1>1, GetCharLemma DEF IInv
<1>3. start.at \in 1..pos /\ pos \in Int /\ pos' \in Int
  BY <1>1, <1>2 DEF IInv, TypeInv, Outside
<1>4. start'.at \in 1..pos' /\ start'.at < pos'
  BY <1>1, <1>2, <1>3
<1>5. Mark' = Mark
  BY <1>1 DEF Mark
<1>6. Entered'
  BY <1>3, <1>4 DEF Entered
<1> QED BY <1>1, <1>2, <1>4, <1>5, <1>6, KeepLemma DEF IInv, TypeInv

(* getNextToken calls a reader.                                            *)
LEMMA BeginLemma ==
  ASSUME IInv, NEW reader \in Readers \ {"none"}, Begin(reader),
         Outside(text', pos'), line' \in Int, column' \in Int, pos <= pos',
         reader \in {"string", "operator"} => pos < pos',
         reader = "whitespace" => InWhitespace',
         reader = "number" => InNumber',
         reader = "word" => ~AtEnd'
  PROVE  IInv'
PROOF
<1>1. /\ text' = text /\ tokens' = tokens /\ reading = "none" /\ reading' = reader /\ start' = Here
  BY DEF Begin
<1>2. /\ Here.at = pos /\ Here \in [at : Int, line : Int, column : Int]
  BY DEF Here, IInv, TypeInv, Outside
<1>3. start'.at \in 1..pos'
  BY <1>1, <1>2 DEF IInv, TypeInv, Outside
<1>4. Mark' = Mark
  BY <1>1, <1>2 DEF Mark
<1>5. Entered'
  BY <1>1, <1>2 DEF Entered
<1> QED BY <1>1, <1>2, <1>3, <1>4, <1>5, KeepLemma DEF IInv

-----------------------------------------------------------------------------
(* The lexer begins outside a character, with nothing returned.            *)
THEOREM Initially == Init => IInv
PROOF
<1> SUFFICES ASSUME Init PROVE IInv
  OBVIOUS
<1>1. text \in Seq(Byte) /\ pos = 1 /\ line = 1 /\ column = 1 /\ reading = "none" /\ tokens = <<>>
  BY TextsAssumption DEF Init
<1>2. start = [at |-> 1, line |-> 1, column |-> 1]
  BY DEF Init, Here
<1>3. Outside(text, 1)
  BY <1>1 DEF Outside, Inside
<1>4. TypeInv
  BY <1>1, <1>2, <1>3 DEF TypeInv, Readers
<1>5. TokensInv
  BY <1>1 DEF TokensInv, Tiled, Mark
<1>6. Entered
  BY <1>1 DEF Entered
<1> QED BY <1>4, <1>5, <1>6 DEF IInv

(* Each step takes a whole character or none, and a token returned ends    *)
(* where the next one begins.                                              *)
THEOREM Stepwise == IInv /\ [Next]_vars => IInv'
PROOF
<1> SUFFICES ASSUME IInv, [Next]_vars PROVE IInv'
  OBVIOUS
<1> USE DEF Readers
<1>t. /\ TypeInv /\ TokensInv /\ Entered /\ Outside(text, pos) /\ pos \in Int /\ start.at \in 1..pos
      /\ line \in Int /\ column \in Int /\ start \in [at : Int, line : Int, column : Int]
  BY DEF IInv, TypeInv, Outside
<1>k. {"ENDF", "INVALID", "LIT_STRING", "LIT_NUM", "WHITESPACE", "IDENTIFIER"} \subseteq TokenType
  BY DEF TokenType
<1>h. /\ Here \in [at : Int, line : Int, column : Int] /\ Here.at = pos
      /\ reading = "none" => Here.at = Mark
  BY <1>t DEF Here, Mark
<1>e. ASSUME reading = "none", GetChar, ~AtEnd, text' = text, start' = start,
             NEW kind \in TokenType, Emit(kind, Here)
      PROVE  IInv'
  <2>1. pos < pos' /\ Outside(text', pos') /\ line' \in Int /\ column' \in Int
    BY <1>e, <1>t, GetCharLemma
  <2>2. pos' \in Int /\ Here.at \in 1..pos' /\ start'.at \in 1..pos' /\ Here.at < pos'
    BY <1>e, <1>t, <1>h, <2>1 DEF Outside
  <2> QED BY <1>e, <1>t, <1>h, <2>1, <2>2, EmitLemma
<1>1. CASE ReturnEnd
  <2>1. /\ text' = text /\ start' = start /\ pos' = pos /\ line' = line /\ column' = column
        /\ Emit("ENDF", Here) /\ reading = "none"
    BY <1>1 DEF ReturnEnd, position
  <2>2. Here.at \in 1..pos' /\ start'.at \in 1..pos'
    BY <1>t, <1>h, <2>1 DEF Outside
  <2> QED BY <1>t, <1>k, <1>h, <2>1, <2>2, EmitLemma
<1>2. CASE ReturnInvalid
  BY <1>2, <1>e, <1>k DEF ReturnInvalid
<1>3. CASE ReturnSingle
  <2>1. PICK s \in singleCharTokens : Peek({s.codepoint}) /\ GetChar /\ Emit(s.kind, Here)
    BY <1>3 DEF ReturnSingle
  <2>2. s.kind \in TokenType
    <3>1. {"LPAREN", "RPAREN", "LBRACE", "RBRACE", "LBRACKET", "RBRACKET", "COMMA", "SEMICOLON",
           "COLON", "DOT", "PLUS", "MINUS", "MUL", "DIV", "PIPE"} \subseteq TokenType
      BY DEF TokenType
    <3>2. \A cp, kind : Single(cp, kind).kind = kind
      BY DEF Single
    <3> QED BY <3>1, <3>2 DEF singleCharTokens
  <2>3. reading = "none" /\ text' = text /\ start' = start /\ ~AtEnd
    BY <1>3, <2>1 DEF ReturnSingle, Peek
  <2> QED BY <1>e, <2>1, <2>2, <2>3
<1>4. CASE BeginWhitespace
  <2>1. Begin("whitespace") /\ pos' = pos /\ line' = line /\ column' = column /\ text' = text
    BY <1>4 DEF BeginWhitespace, Begin, position
  <2>2. InWhitespace'
    BY <1>4, <2>1 DEF BeginWhitespace, InWhitespace, AtEnd, Peeked
  <2> QED BY <1>t, <2>1, <2>2, BeginLemma
<1>5. CASE BeginString
  <2>1. Begin("string") /\ GetChar /\ ~AtEnd /\ text' = text
    BY <1>5 DEF BeginString, Begin, Peek
  <2>2. pos < pos' /\ Outside(text', pos') /\ line' \in Int /\ column' \in Int
    BY <1>t, <2>1, GetCharLemma
  <2> QED BY <1>t, <2>1, <2>2, BeginLemma DEF Outside
<1>6. CASE BeginNumber
  <2>1. Begin("number") /\ pos' = pos /\ line' = line /\ column' = column /\ text' = text
    BY <1>6 DEF BeginNumber, Begin, position
  <2>2. InNumber'
    BY <1>6, <2>1 DEF BeginNumber, InNumber, AtEnd, Peeked
  <2> QED BY <1>t, <2>1, <2>2, BeginLemma
<1>7. CASE BeginOperator
  <2>1. Begin("operator") /\ GetChar /\ ~AtEnd /\ text' = text
    BY <1>7 DEF BeginOperator, Begin, Peek
  <2>2. pos < pos' /\ Outside(text', pos') /\ line' \in Int /\ column' \in Int
    BY <1>t, <2>1, GetCharLemma
  <2> QED BY <1>t, <2>1, <2>2, BeginLemma DEF Outside
<1>8. CASE BeginWord
  <2>1. Begin("word") /\ pos' = pos /\ line' = line /\ column' = column /\ text' = text
    BY <1>8 DEF BeginWord, Begin, position
  <2>2. ~AtEnd'
    BY <1>8, <2>1 DEF BeginWord, AtEnd
  <2> QED BY <1>t, <2>1, <2>2, BeginLemma
<1>9. CASE ReadWhitespace
  BY <1>9, TakeLemma DEF ReadWhitespace, InWhitespace
<1>10. CASE ReturnWhitespace
  <2>1. Outside(text, pos)' /\ line' \in Int /\ column' \in Int /\ pos' = pos /\ Return("WHITESPACE")
    BY <1>10, StayLemma DEF ReturnWhitespace, Return
  <2>2. start.at < pos' /\ reading # "none"
    BY <1>10, <1>t, <2>1 DEF ReturnWhitespace, Entered
  <2> QED BY <1>k, <2>1, <2>2, ReturnLemma
<1>11. CASE ReadString
  BY <1>11, TakeLemma DEF ReadString
<1>12. CASE ReturnString
  <2>1. PICK kind \in TokenType : Return(kind)
    BY <1>12, <1>k DEF ReturnString
  <2>2. pos < pos' /\ Outside(text', pos') /\ line' \in Int /\ column' \in Int
    BY <1>12, <1>t, <2>1, GetCharLemma DEF ReturnString, Return
  <2>3. start.at < pos' /\ reading # "none"
    BY <1>12, <1>t, <2>2 DEF ReturnString, Outside
  <2> QED BY <2>1, <2>2, <2>3, ReturnLemma
<1>13. CASE ReturnUnterminated
  <2>1. Outside(text, pos)' /\ line' \in Int /\ column' \in Int /\ pos' = pos /\ Return("INVALID")
    BY <1>13, StayLemma DEF ReturnUnterminated, Return
  <2>2. start.at < pos' /\ reading # "none"
    BY <1>13, <1>t, <2>1 DEF ReturnUnterminated, Entered
  <2> QED BY <1>k, <2>1, <2>2, ReturnLemma
<1>14. CASE ReadDigit
  BY <1>14, TakeLemma DEF ReadDigit, InNumber
<1>15. CASE ReadDot
  BY <1>15, TakeLemma DEF ReadDot, AtDot, Peek
<1>16. CASE ReturnNumber
  <2>1. Outside(text, pos)' /\ line' \in Int /\ column' \in Int /\ pos' = pos /\ Return("LIT_NUM")
    BY <1>16, StayLemma DEF ReturnNumber, Return
  <2>2. start.at < pos' /\ reading # "none"
    BY <1>16, <1>t, <2>1 DEF ReturnNumber, Entered
  <2> QED BY <1>k, <2>1, <2>2, ReturnLemma
<1>17. CASE ReadWord
  BY <1>17, TakeLemma DEF ReadWord, InWord
<1>18. CASE ReturnWord
  <2>1. PICK kind \in TokenType : Return(kind)
    BY <1>18, <1>k, KeywordsAssumption DEF ReturnWord
  <2>2. Outside(text, pos)' /\ line' \in Int /\ column' \in Int /\ pos' = pos
    BY <1>18, <2>1, StayLemma DEF ReturnWord, Return
  <2>3. start.at < pos' /\ reading # "none"
    BY <1>18, <1>t, <2>2 DEF ReturnWord
  <2> QED BY <2>1, <2>2, <2>3, ReturnLemma
<1>19. CASE RefuseWord
  <2>1. Return("INVALID") /\ GetChar /\ reading = "word" /\ start.at = pos /\ text' = text
    BY <1>19 DEF RefuseWord, Return
  <2>2. ~AtEnd
    BY <1>19, <1>t DEF RefuseWord, Entered, InWord, AtEnd
  <2>3. pos < pos' /\ Outside(text', pos') /\ line' \in Int /\ column' \in Int
    BY <1>t, <2>1, <2>2, GetCharLemma
  <2> QED BY <1>k, <2>1, <2>3, ReturnLemma
<1>20. CASE ReturnOperator
  <2>1. PICK o \in Operators :
          IF Peek({EqualsSign}) THEN GetChar /\ Return(o.paired) ELSE Stay /\ Return(o.alone)
    BY <1>20 DEF ReturnOperator
  <2>2. o.paired \in TokenType /\ o.alone \in TokenType
    BY DEF Operators, Operator, TokenType
  <2>3. reading # "none" /\ start.at < pos
    BY <1>20, <1>t DEF ReturnOperator, Entered
  <2>4. CASE Peek({EqualsSign})
    <3>1. pos < pos' /\ Outside(text', pos') /\ line' \in Int /\ column' \in Int /\ Return(o.paired)
      BY <1>t, <2>1, <2>4, GetCharLemma DEF Peek, Return
    <3>2. start.at < pos'
      BY <1>t, <2>3, <3>1 DEF Outside
    <3> QED BY <2>2, <2>3, <3>1, <3>2, ReturnLemma
  <2>5. CASE ~Peek({EqualsSign})
    <3>1. Outside(text, pos)' /\ line' \in Int /\ column' \in Int /\ pos' = pos /\ Return(o.alone)
      BY <2>1, <2>5, StayLemma DEF Return
    <3> QED BY <2>2, <2>3, <3>1, ReturnLemma
  <2> QED BY <2>4, <2>5
<1>21. CASE UNCHANGED vars
  <2>1. Entered' /\ Mark' = Mark
    BY <1>21, <1>t DEF vars, Entered, Mark, InWhitespace, InNumber, AtEnd, Peeked
  <2> QED BY <1>21, <1>t, <2>1, KeepLemma DEF vars, TypeInv
<1> QED BY <1>1, <1>2, <1>3, <1>4, <1>5, <1>6, <1>7, <1>8, <1>9, <1>10, <1>11, <1>12, <1>13, <1>14,
           <1>15, <1>16, <1>17, <1>18, <1>19, <1>20, <1>21 DEF Next

(* Whatever the bytes are, no token ends inside a character.               *)
THEOREM TokensEndAtCharacters == Spec => []NeverSplits
PROOF
<1>1. IInv => NeverSplits
  BY DEF IInv, TokensInv, NeverSplits, Outside, Starts, TypeInv
<1> QED BY <1>1, Initially, Stepwise, PTL DEF Spec

(* The tokens cover the text without a gap, and a token other than ENDF is *)
(* never empty: the lexer cannot return for ever at one place.             *)
THEOREM TokensTileTheText == Spec => []Tiled
PROOF
<1>1. IInv => Tiled
  BY DEF IInv, TokensInv
<1> QED BY <1>1, Initially, Stepwise, PTL DEF Spec

-----------------------------------------------------------------------------
(* Tokenised.  The characters of a slice are those that begin in it; what  *)
(* a reader has taken so far is known by its characters (Taken), and so is *)
(* what it stands before, which decides whether the token is the longest.  *)
Chars(t, from, to) == {at \in from..to - 1 : ~Inside(t, at)}
LastOf(chars) == CHOOSE at \in chars : \A p \in chars : p <= at
Plain(c) == c \notin LineBreaks \cup {Quote, Stray}
Starter(c) == WordChar(c) /\ c \notin Digits \cup Space
Dots(t, from, to) == {at \in Chars(t, from, to) : CharAt(t, at) = Dot}

Placed(at, l, c) == l = LineOf(text, at) /\ c = ColumnOf(text, at)
Good(token) ==
  /\ Placed(token.from, token.line, token.column)
  /\ IF token.from > Len(text) THEN token.kind = "ENDF" /\ token.to = token.from
     ELSE /\ token.kind = KindOf(text, token.from, token.to, Keywords)
          /\ Longest(text, token.from, token.to, Keywords)

Taken ==
  LET chars == Chars(text, start.at, pos)
      c(at) == CharAt(text, at)
  IN  /\ reading = "whitespace" => \A at \in chars : c(at) \in Space
      /\ reading = "string" =>
           /\ start.at \in chars /\ c(start.at) = Quote
           /\ \A at \in chars \ {start.at} : Plain(c(at))
      /\ reading = "number" =>
           /\ \A at \in chars : c(at) \in Digits \cup {Dot}
           /\ start.at < pos => c(start.at) \in Digits
           /\ Cardinality(Dots(text, start.at, pos)) = IF seenDot THEN 1 ELSE 0
      /\ reading = "operator" =>
           chars = {start.at} /\ c(start.at) \in OperatorCodes
      /\ reading = "word" =>
           IF start.at = pos
           THEN c(pos) \notin Space \cup Digits \cup OperatorCodes \cup SingleCodes \cup {Quote, Stray}
           ELSE Starter(c(start.at)) /\ \A at \in chars : WordChar(c(at)) \/ c(at) = Stray

FullInv ==
  /\ IInv
  /\ seenDot \in BOOLEAN
  /\ Placed(pos, line, column)
  /\ reading # "none" => Outside(text, start.at) /\ Placed(start.at, start.line, start.column)
  /\ Taken
  /\ \A k \in DOMAIN tokens : Good(tokens[k])

-----------------------------------------------------------------------------
(* The bits of a byte that carry the code point, and the sizes.            *)
LEMMA Bits ==
  ASSUME NEW byte \in Byte
  PROVE  /\ byte \in Nat
         /\ byte \in 128..191 => byte % 64 = byte - 128 /\ byte - 128 \in Nat
         /\ LeadSize(byte) = 1 => ByteCount(byte) = 1
         /\ LeadSize(byte) = 2 => ByteCount(byte) = 2 /\ byte % 32 = byte - 192 /\ byte - 192 \in Nat
         /\ LeadSize(byte) = 3 => ByteCount(byte) = 3 /\ byte % 16 = byte - 224 /\ byte - 224 \in Nat
         /\ LeadSize(byte) = 4 => ByteCount(byte) = 4 /\ byte % 8 = byte - 240 /\ byte - 240 \in Nat
         /\ LeadSize(byte) \in 0..4
PROOF
<1>1. CASE byte \in 0..127
  BY <1>1 DEF LeadSize, ByteCount
<1>2. CASE byte \in 128..191
  BY <1>2 DEF LeadSize, ByteCount
<1>3. CASE byte \in 192..223
  BY <1>3 DEF LeadSize, ByteCount
<1>4. CASE byte \in 224..239
  BY <1>4 DEF LeadSize, ByteCount
<1>5. CASE byte \in 240..247
  BY <1>5 DEF LeadSize, ByteCount
<1>6. CASE byte \in 248..255
  BY <1>6 DEF LeadSize, ByteCount
<1> QED BY <1>1, <1>2, <1>3, <1>4, <1>5, <1>6 DEF Byte

(* decodeNext's code point is the character's, and a byte that is none of  *)
(* a character is a stray one.                                             *)
LEMMA DecodedIsChar ==
  ASSUME NEW t \in Seq(Byte), NEW at \in 1..Len(t)
  PROVE  /\ CharAt(t, at) \in Int
         /\ Decoded(t, at).valid <=> CharAt(t, at) # Stray
         /\ CharAt(t, at) # Stray => Decoded(t, at).codepoint = CharAt(t, at)
         /\ Decoded(t, at).codepoint = NewLine <=> CharAt(t, at) = Newline
PROOF
<1>1. t[at] \in Byte
  OBVIOUS
<1>2. CASE ~Complete(t, at)
  <2>1. CharAt(t, at) = -1
    BY <1>2 DEF CharAt, Stray
  <2>2. ~WellFormed(t, at)
    BY <1>2, WellFormedIsComplete
  <2>3. Decoded(t, at).valid = FALSE /\ Decoded(t, at).codepoint = 65533
    BY <2>2 DEF Decoded, Replacement
  <2> QED BY <2>1, <2>3 DEF Stray, NewLine, Newline
<1>3. CASE Complete(t, at)
  <2>1. WellFormed(t, at)
    BY <1>3, WellFormedIsComplete
  <2>2. Decoded(t, at).valid = TRUE /\ Decoded(t, at).codepoint = Codepoint(t, at)
    BY <2>1 DEF Decoded
  <2>3. LeadSize(t[at]) > 0 /\ at + LeadSize(t[at]) - 1 <= Len(t)
    BY <1>3 DEF Complete
  <2>4. ASSUME NEW i \in 1..LeadSize(t[at]) - 1
        PROVE  t[at + i] % 64 = t[at + i] - 128 /\ t[at + i] - 128 \in Nat
    <3>1. t[at + i] \in 128..191
      BY <1>3 DEF Complete, Continuation
    <3>2. t[at + i] \in Byte
      BY <3>1 DEF Byte
    <3> QED BY <3>1, <3>2, Bits
  <2>5. LeadSize(t[at]) \in 1..4
    BY <1>1, <2>3, Bits
  <2>6. CharAt(t, at) = Codepoint(t, at) /\ CharAt(t, at) \in Nat
    <3>1. CASE LeadSize(t[at]) = 1
      <4>1. CharAt(t, at) = t[at]
        BY <1>3, <3>1 DEF CharAt
      <4>2. ByteCount(t[at]) = 1 /\ t[at] \in Nat
        BY <1>1, <3>1, Bits
      <4> QED BY <4>1, <4>2 DEF Codepoint
    <3>2. CASE LeadSize(t[at]) = 2
      <4>1. CharAt(t, at) = (t[at] - 192) * 64 + (t[at + 1] - 128)
        BY <1>3, <3>2 DEF CharAt
      <4>2. ByteCount(t[at]) = 2 /\ t[at] % 32 = t[at] - 192 /\ t[at] - 192 \in Nat
        BY <1>1, <3>2, Bits
      <4>3. t[at + 1] % 64 = t[at + 1] - 128 /\ t[at + 1] - 128 \in Nat
        <5>1. \A i \in 1..1 : i \in 1..LeadSize(t[at]) - 1
          BY <3>2
        <5> QED BY <5>1, <2>4
      <4>4. Codepoint(t, at) = (t[at] - 192) * 64 + (t[at + 1] - 128)
        BY <4>2, <4>3 DEF Codepoint
      <4> QED BY <4>1, <4>2, <4>3, <4>4
    <3>3. CASE LeadSize(t[at]) = 3
      <4>1. CharAt(t, at) = ((t[at] - 224) * 64 + (t[at + 1] - 128)) * 64 + (t[at + 2] - 128)
        BY <1>3, <3>3 DEF CharAt
      <4>2. ByteCount(t[at]) = 3 /\ t[at] % 16 = t[at] - 224 /\ t[at] - 224 \in Nat
        BY <1>1, <3>3, Bits
      <4>3. /\ t[at + 1] % 64 = t[at + 1] - 128 /\ t[at + 1] - 128 \in Nat
            /\ t[at + 2] % 64 = t[at + 2] - 128 /\ t[at + 2] - 128 \in Nat
        <5>1. \A i \in 1..2 : i \in 1..LeadSize(t[at]) - 1
          BY <3>3
        <5> QED BY <5>1, <2>4
      <4>4. Codepoint(t, at) = ((t[at] - 224) * 64 + (t[at + 1] - 128)) * 64 + (t[at + 2] - 128)
        BY <4>2, <4>3 DEF Codepoint
      <4> QED BY <4>1, <4>2, <4>3, <4>4
    <3>4. CASE LeadSize(t[at]) = 4
      <4>1. CharAt(t, at) =
              (((t[at] - 240) * 64 + (t[at + 1] - 128)) * 64 + (t[at + 2] - 128)) * 64 + (t[at + 3] - 128)
        BY <1>3, <3>4 DEF CharAt
      <4>2. ByteCount(t[at]) = 4 /\ t[at] % 8 = t[at] - 240 /\ t[at] - 240 \in Nat
        BY <1>1, <3>4, Bits
      <4>3. /\ t[at + 1] % 64 = t[at + 1] - 128 /\ t[at + 1] - 128 \in Nat
            /\ t[at + 2] % 64 = t[at + 2] - 128 /\ t[at + 2] - 128 \in Nat
            /\ t[at + 3] % 64 = t[at + 3] - 128 /\ t[at + 3] - 128 \in Nat
        <5>1. \A i \in 1..3 : i \in 1..LeadSize(t[at]) - 1
          BY <3>4
        <5> QED BY <5>1, <2>4
      <4>4. Codepoint(t, at) =
              (((t[at] - 240) * 64 + (t[at + 1] - 128)) * 64 + (t[at + 2] - 128)) * 64 + (t[at + 3] - 128)
        BY <4>2, <4>3 DEF Codepoint
      <4> QED BY <4>1, <4>2, <4>3, <4>4
    <3> QED BY <2>5, <3>1, <3>2, <3>3, <3>4
  <2> QED BY <2>2, <2>6 DEF Stray, NewLine, Newline
<1> QED BY <1>2, <1>3

(* A character's own bytes begin no other: getChar takes one character.    *)
LEMMA OneCharacter ==
  ASSUME NEW t \in Seq(Byte), NEW at \in 1..Len(t), ~Inside(t, at),
         NEW p \in at + 1..at + Decoded(t, at).byteCount - 1
  PROVE  Inside(t, p)
PROOF
<1>1. t[at] \in Byte /\ Decoded(t, at).byteCount \in Int
  BY SizesAgree DEF Decoded
<1>2. Decoded(t, at).byteCount # 1
  BY <1>1
<1>3. WellFormed(t, at) /\ Decoded(t, at).byteCount = ByteCount(t[at])
  BY <1>2 DEF Decoded
<1>4. Complete(t, at) /\ ByteCount(t[at]) = LeadSize(t[at])
  BY <1>1, <1>3, WellFormedIsComplete, SizesAgree DEF WellFormed
<1>5. p \in Int /\ at \in 1..p - 1 /\ p < at + LeadSize(t[at])
  BY <1>1, <1>3, <1>4
<1> QED BY <1>4, <1>5 DEF Inside

(* After getChar a slice has one more character.                           *)
LEMMA CharsTaken ==
  ASSUME NEW t \in Seq(Byte), NEW at \in 1..Len(t), ~Inside(t, at), NEW from \in 1..at
  PROVE  /\ Chars(t, from, at + Decoded(t, at).byteCount) = Chars(t, from, at) \cup {at}
         /\ Chars(t, at, at) = {}
         /\ Decoded(t, at).byteCount \in 1..4
PROOF
<1> DEFINE n == Decoded(t, at).byteCount
<1>1. n \in 1..4
  <2>1. t[at] \in Byte
    OBVIOUS
  <2> QED BY <2>1, SizesAgree DEF Decoded
<1>2. \A p \in at + 1..at + n - 1 : Inside(t, p)
  BY OneCharacter
<1> HIDE DEF n
<1>3. \A p \in from..at + n - 1 : ~Inside(t, p) <=> p = at \/ (p \in from..at - 1 /\ ~Inside(t, p))
  BY <1>1, <1>2
<1>4. \A p : p \in from..at + n - 1 <=> p \in from..at - 1 \/ p = at \/ p \in at + 1..at + n - 1
  BY <1>1
<1> QED BY <1>1, <1>2, <1>3, <1>4 DEF Chars, n

(* The characters before a place, and their number.                        *)
LEMMA StartsFinite ==
  ASSUME NEW t \in Seq(Byte), NEW S \in SUBSET Starts(t)
  PROVE  IsFiniteSet(S) /\ Cardinality(S) \in Nat
PROOF
<1>1. Starts(t) \subseteq 1..Len(t) /\ Len(t) \in Int
  BY DEF Starts
<1>2. IsFiniteSet(1..Len(t))
  BY <1>1, FS_Interval
<1>3. S \subseteq 1..Len(t)
  BY <1>1
<1> QED BY <1>2, <1>3, FS_Subset, FS_CardinalityType

(* getChar counts lines and columns as they are defined.                   *)
LEMMA PlaceAfter ==
  ASSUME NEW t \in Seq(Byte), NEW at \in 1..Len(t), ~Inside(t, at),
         NEW to, to = at + Decoded(t, at).byteCount
  PROVE  /\ CharAt(t, at) = Newline =>
              LineOf(t, to) = LineOf(t, at) + 1 /\ ColumnOf(t, to) = 1
         /\ CharAt(t, at) # Newline =>
              LineOf(t, to) = LineOf(t, at) /\ ColumnOf(t, to) = ColumnOf(t, at) + 1
PROOF
<1> DEFINE Breaks(e) == {p \in Starts(t) : p < e /\ CharAt(t, p) = Newline}
           Row(e) == {p \in Starts(t) :
                        p < e /\ \A q \in Starts(t) : p <= q /\ q < e => CharAt(t, q) # Newline}
<1>1. /\ at \in Starts(t) /\ to \in Int /\ at < to /\ at \in Int
      /\ Starts(t) \subseteq Int
      /\ \A p \in Starts(t) : p < to <=> p < at \/ p = at
  <2>1. /\ Decoded(t, at).byteCount \in 1..4
        /\ \A p \in at + 1..at + Decoded(t, at).byteCount - 1 : Inside(t, p)
    BY OneCharacter, CharsTaken
  <2> QED BY <2>1 DEF Starts
<1>2. /\ LineOf(t, to) = 1 + Cardinality(Breaks(to)) /\ LineOf(t, at) = 1 + Cardinality(Breaks(at))
      /\ ColumnOf(t, to) = 1 + Cardinality(Row(to)) /\ ColumnOf(t, at) = 1 + Cardinality(Row(at))
  BY DEF LineOf, ColumnOf
<1>3. /\ IsFiniteSet(Breaks(at)) /\ Cardinality(Breaks(at)) \in Nat
      /\ IsFiniteSet(Row(at)) /\ Cardinality(Row(at)) \in Nat
      /\ at \notin Breaks(at) /\ at \notin Row(at)
  <2>1. Breaks(at) \in SUBSET Starts(t) /\ Row(at) \in SUBSET Starts(t)
    OBVIOUS
  <2>2. at \notin Breaks(at) /\ at \notin Row(at)
    BY <1>1
  <2> HIDE DEF Breaks, Row
  <2> QED BY <2>1, <2>2, StartsFinite
<1>4. CASE CharAt(t, at) = Newline
  <2>1. Breaks(to) = Breaks(at) \cup {at}
    BY <1>1, <1>4
  <2>2. Row(to) = {}
    <3> SUFFICES ASSUME NEW p \in Row(to) PROVE FALSE
      OBVIOUS
    <3>1. p <= at
      BY <1>1
    <3> QED BY <1>1, <1>4, <3>1
  <2> HIDE DEF Breaks, Row
  <2>3. Cardinality(Breaks(to)) = Cardinality(Breaks(at)) + 1 /\ Cardinality(Row(to)) = 0
    BY <1>3, <2>1, <2>2, FS_AddElement, FS_EmptySet
  <2> QED BY <1>2, <1>3, <1>4, <2>3
<1>5. CASE CharAt(t, at) # Newline
  <2>1. Breaks(to) = Breaks(at)
    BY <1>1, <1>5
  <2>2. Row(to) = Row(at) \cup {at}
    <3>1. ASSUME NEW p \in Row(to) PROVE p \in Row(at) \cup {at}
      BY <1>1
    <3>2. ASSUME NEW p \in Row(at) PROVE p \in Row(to)
      BY <1>1, <1>5
    <3>3. at \in Row(to)
      BY <1>1, <1>5
    <3> QED BY <3>1, <3>2, <3>3
  <2> HIDE DEF Breaks, Row
  <2>3. Cardinality(Row(to)) = Cardinality(Row(at)) + 1
    BY <1>3, <2>2, FS_AddElement
  <2> QED BY <1>2, <1>3, <1>5, <2>1, <2>3
<1> QED BY <1>4, <1>5

-----------------------------------------------------------------------------
(* The guards of KindOf.                                                   *)
AllSpace(t, f, e) == \A at \in Chars(t, f, e) : CharAt(t, at) \in Space
IsSymbol(t, f, e) == Chars(t, f, e) = {f} /\ CharAt(t, f) \in SymbolCodes
IsPaired(t, f, e) ==
  LET last == LastOf(Chars(t, f, e))
  IN  /\ Chars(t, f, e) = {f, last} /\ last # f
      /\ CharAt(t, f) \in DOMAIN WithEquals /\ CharAt(t, last) = Equals
IsNumber(t, f, e) ==
  /\ CharAt(t, f) \in Digits /\ \A at \in Chars(t, f, e) : CharAt(t, at) \in Digits \cup {Dot}
  /\ Cardinality(Dots(t, f, e)) <= 1
PlainInside(t, f, e) == \A at \in Chars(t, f, e) \ {f, LastOf(Chars(t, f, e))} : Plain(CharAt(t, at))
IsString(t, f, e) ==
  LET last == LastOf(Chars(t, f, e))
  IN  CharAt(t, f) = Quote /\ last # f /\ CharAt(t, last) = Quote /\ PlainInside(t, f, e)
IsBroken(t, f, e) ==
  LET last == LastOf(Chars(t, f, e))
  IN  /\ CharAt(t, f) = Quote /\ PlainInside(t, f, e)
      /\ IF last # f /\ CharAt(t, last) \in LineBreaks \cup {Stray} THEN TRUE
         ELSE e = Len(t) + 1 /\ (last = f \/ Plain(CharAt(t, last)))
IsWord(t, f, e) ==
  Starter(CharAt(t, f)) /\ \A at \in Chars(t, f, e) : WordChar(CharAt(t, at)) \/ CharAt(t, at) = Stray
IsAlone(t, f, e) ==
  /\ Chars(t, f, e) = {f} /\ ~WordChar(CharAt(t, f))
  /\ CharAt(t, f) \notin Space \cup Digits \cup SymbolCodes \cup {Quote}

(* What a slice's first character leaves possible.                         *)
LEMMA Classes ==
  ASSUME NEW c \in Int
  PROVE  /\ c \in Space => c \notin Digits \cup {Quote, Stray, Dot, 33, 60, 61, 62} /\ c \notin SymbolCodes /\ ~Starter(c)
         /\ c \in SymbolCodes => c \notin Digits \cup {Quote, Stray, 33} /\ ~WordChar(c)
         /\ c \in {33, 60, 61, 62} => c \notin Digits \cup {Quote, Stray, Dot} /\ ~WordChar(c)
         /\ c \in Digits => c \notin {Quote, Stray, Dot} /\ ~Starter(c) /\ WordChar(c)
         /\ c \in {Quote, Stray} => ~WordChar(c)
         /\ c = 33 => c \notin SymbolCodes
         /\ DOMAIN WithEquals = {33, 60, 61, 62}
         /\ SymbolCodes = SingleCodes \cup {60, 61, 62}
         /\ OperatorCodes = {33, 60, 61, 62}
PROOF
<1>1. SymbolCodes = {40, 41, 123, 125, 91, 93, 44, 1548, 1563, 58, 46, 43, 45, 42, 47, 124, 60, 61, 62}
  BY DEF SymbolCodes, Symbol
<1>2. SingleCodes = {40, 41, 123, 125, 91, 93, 44, 1548, 1563, 58, 46, 43, 45, 42, 47, 124}
  <2>1. \A cp, kind : Single(cp, kind).codepoint = cp
    BY DEF Single
  <2> QED BY <2>1 DEF SingleCodes, singleCharTokens
<1>3. OperatorCodes = {33, 60, 61, 62}
  <2>1. \A cp, alone, paired : Operator(cp, alone, paired).codepoint = cp
    BY DEF Operator
  <2> QED BY <2>1 DEF OperatorCodes, Operators
<1>4. DOMAIN WithEquals = {33, 60, 61, 62}
  BY DEF WithEquals
<1> QED BY <1>1, <1>2, <1>3, <1>4 DEF Space, Digits, Quote, Stray, Dot, Starter, WordChar

(* decodeNext's classes of characters are those of the token language.     *)
LEMMA ClassesAgree ==
  ASSUME NEW c \in Int
  PROVE  /\ IsWhitespace(c) <=> c \in Space
         /\ IsDigit(c) <=> c \in Digits
         /\ IsIdentChar(c) <=> WordChar(c)
         /\ LineBreak = LineBreaks /\ QuoteMark = Quote /\ FullStop = Dot /\ EqualsSign = Equals
PROOF
  BY DEF IsWhitespace, Space, IsDigit, Digits, IsIdentChar, WordChar, LineBreak, LineBreaks,
         QuoteMark, Quote, FullStop, Dot, EqualsSign, Equals

(* KindOf in terms of its guards.                                          *)
LEMMA KindCases ==
  ASSUME NEW t, NEW f, NEW e, NEW kw
  PROVE  LET kind == KindOf(t, f, e, kw)
         IN  kind = CASE AllSpace(t, f, e) -> "WHITESPACE"
                      [] IsSymbol(t, f, e) -> CHOOSE k \in DOMAIN Symbol : CharAt(t, f) \in Symbol[k]
                      [] IsPaired(t, f, e) -> WithEquals[CharAt(t, f)]
                      [] IsNumber(t, f, e) -> "LIT_NUM"
                      [] IsString(t, f, e) -> "LIT_STRING"
                      [] IsBroken(t, f, e) -> "INVALID"
                      [] IsWord(t, f, e) -> IF SubSeq(t, f, e - 1) \in DOMAIN kw
                                            THEN kw[SubSeq(t, f, e - 1)] ELSE "IDENTIFIER"
                      [] IsAlone(t, f, e) -> "INVALID"
                      [] OTHER -> "none"
PROOF
  BY Zenon DEF KindOf, AllSpace, IsSymbol, IsPaired, IsNumber, IsString, IsBroken, IsWord, IsAlone,
     Chars, LastOf, Plain, PlainInside, Starter, Dots

(* What is true of a slice whose first character is known.                 *)
LEMMA ByFirst ==
  ASSUME NEW t, NEW f, NEW e, f \in Chars(t, f, e)
  PROVE  /\ AllSpace(t, f, e) => CharAt(t, f) \in Space
         /\ IsSymbol(t, f, e) => CharAt(t, f) \in SymbolCodes
         /\ IsPaired(t, f, e) => CharAt(t, f) \in DOMAIN WithEquals
         /\ IsNumber(t, f, e) => CharAt(t, f) \in Digits
         /\ IsString(t, f, e) \/ IsBroken(t, f, e) => CharAt(t, f) = Quote
         /\ IsWord(t, f, e) => Starter(CharAt(t, f))
         /\ IsAlone(t, f, e) => /\ ~WordChar(CharAt(t, f))
                                /\ CharAt(t, f) \notin Space \cup Digits \cup SymbolCodes \cup {Quote}
PROOF
  BY DEF AllSpace, IsSymbol, IsPaired, IsNumber, IsString, IsBroken, IsWord, IsAlone

(* The characters of a slice, of a longer one, and the last of them.       *)
LEMMA LastExists ==
  ASSUME NEW n \in Nat, NEW S \in SUBSET (1..n), S # {}
  PROVE  LastOf(S) \in S /\ \A p \in S : p <= LastOf(S)
PROOF
<1> DEFINE T == {k \in Nat : n - k \in S}
           R == {r \in Nat \X Nat : r[1] < r[2]}
<1>1. T \subseteq Nat
  OBVIOUS
<1>2. ASSUME NEW j \in S PROVE n - j \in T /\ j \in Int
  OBVIOUS
<1>3. IsWellFoundedOn(R, Nat)
  BY NatLessThanWellFounded DEF OpToRel
<1>4. PICK x \in T : \A y \in T : ~(<<y, x>> \in R)
  <2>1. T # {}
    BY <1>2
  <2> HIDE DEF R, T
  <2> QED BY <1>1, <1>3, <2>1, WFMin
<1>5. n - x \in S
  BY <1>4
<1>6. ASSUME NEW j \in S PROVE j <= n - x
  <2>1. n - j \in Nat /\ n - j \in T /\ x \in Nat /\ j \in Int
    BY <1>2, <1>4
  <2>2. ~(n - j < x)
    BY <1>4, <2>1
  <2> QED BY <2>1, <2>2
<1>7. \E at \in S : \A p \in S : p <= at
  BY <1>5, <1>6
<1> HIDE DEF T, R
<1> QED BY <1>7 DEF LastOf

Slice(t, f, e) ==
  t \in Seq(Byte) /\ f \in 1..Len(t) /\ e \in f + 1..Len(t) + 1 /\ ~Inside(t, f) /\ ~Inside(t, e)

(* A slice between two characters has a first and a last one.              *)
LEMMA SliceChars ==
  ASSUME NEW t, NEW f, NEW e, Slice(t, f, e)
  PROVE  /\ f \in Chars(t, f, e) /\ e \notin Chars(t, f, e)
         /\ Chars(t, f, e) \subseteq 1..Len(t)
         /\ \A at \in Chars(t, f, e) : CharAt(t, at) \in Int
         /\ LastOf(Chars(t, f, e)) \in Chars(t, f, e)
         /\ \A p \in Chars(t, f, e) : p <= LastOf(Chars(t, f, e))
         /\ IsFiniteSet(Chars(t, f, e))
PROOF
<1>1. f \in Chars(t, f, e) /\ e \notin Chars(t, f, e) /\ Chars(t, f, e) \subseteq 1..Len(t) /\ Len(t) \in Nat
  BY DEF Slice, Chars
<1>2. \A at \in Chars(t, f, e) : CharAt(t, at) \in Int
  BY <1>1, DecodedIsChar DEF Slice
<1>3. IsFiniteSet(1..Len(t))
  BY <1>1, FS_Interval
<1> QED BY <1>1, <1>2, <1>3, LastExists, FS_Subset

(* A longer slice has the character that the shorter one ends before.      *)
LEMMA LongerSlice ==
  ASSUME NEW t, NEW f, NEW e, Slice(t, f, e), NEW g \in Starts(t) \cup {Len(t) + 1}, g > e
  PROVE  /\ Slice(t, f, g)
         /\ e \in 1..Len(t)
         /\ Chars(t, f, e) \cup {e} \subseteq Chars(t, f, g)
PROOF
<1>1. \A q : Complete(t, q) /\ q \in 1..Len(t) => q + LeadSize(t[q]) - 1 <= Len(t)
  BY DEF Complete
<1>2. ~Inside(t, Len(t) + 1)
  <2> SUFFICES ASSUME NEW q \in 1..Len(t), Complete(t, q), Len(t) + 1 < q + LeadSize(t[q])
               PROVE  FALSE
    BY DEF Inside, Slice
  <2>1. t[q] \in Byte
    BY DEF Slice
  <2>2. LeadSize(t[q]) \in Nat
    BY <2>1 DEF LeadSize, Byte
  <2> QED BY <1>1, <2>2 DEF Slice
<1>3. g \in f + 1..Len(t) + 1 /\ ~Inside(t, g)
  BY <1>2 DEF Starts, Slice
<1> QED BY <1>3 DEF Slice, Chars

-----------------------------------------------------------------------------
(* One lemma for each way a token ends: its kind, and that no longer slice *)
(* is a token.                                                             *)
IsToken(t, f, e, kw, kind) == KindOf(t, f, e, kw) = kind /\ Longest(t, f, e, kw)

(* White space up to a character that is none.                             *)
LEMMA SpaceToken ==
  ASSUME NEW t, NEW f, NEW e, NEW kw, Slice(t, f, e), AllSpace(t, f, e),
         e > Len(t) \/ CharAt(t, e) \notin Space
  PROVE  IsToken(t, f, e, kw, "WHITESPACE")
PROOF
<1>1. f \in Chars(t, f, e) /\ CharAt(t, f) \in Int /\ CharAt(t, f) \in Space
  BY SliceChars DEF AllSpace
<1>2. ASSUME NEW g, f \in Chars(t, f, g)
      PROVE  /\ ~IsSymbol(t, f, g) /\ ~IsPaired(t, f, g) /\ ~IsNumber(t, f, g) /\ ~IsString(t, f, g)
             /\ ~IsBroken(t, f, g) /\ ~IsWord(t, f, g) /\ ~IsAlone(t, f, g)
  BY <1>1, <1>2, ByFirst, Classes
<1>3. KindOf(t, f, e, kw) = "WHITESPACE"
  BY <1>1, <1>2, KindCases
<1>4. ASSUME NEW g \in Starts(t) \cup {Len(t) + 1}, g > e
      PROVE  KindOf(t, f, g, kw) = "none"
  <2>1. Slice(t, f, g) /\ e \in 1..Len(t) /\ e \in Chars(t, f, g) /\ f \in Chars(t, f, g)
    BY <1>1, <1>4, LongerSlice
  <2>2. ~AllSpace(t, f, g)
    BY <2>1 DEF AllSpace
  <2> QED BY <1>2, <2>1, <2>2, KindCases
<1> QED BY <1>3, <1>4 DEF IsToken, Longest

(* A number up to a character that is no digit or a second dot.            *)
LEMMA NumberToken ==
  ASSUME NEW t, NEW f, NEW e, NEW kw, Slice(t, f, e), CharAt(t, f) \in Digits,
         \A at \in Chars(t, f, e) : CharAt(t, at) \in Digits \cup {Dot},
         Cardinality(Dots(t, f, e)) \in {0, 1},
         \/ e > Len(t)
         \/ CharAt(t, e) \notin Digits \cup {Dot}
         \/ CharAt(t, e) = Dot /\ Cardinality(Dots(t, f, e)) = 1
  PROVE  IsToken(t, f, e, kw, "LIT_NUM")
PROOF
<1>1. f \in Chars(t, f, e) /\ CharAt(t, f) \in Int
  BY SliceChars
<1>2. ASSUME NEW g, f \in Chars(t, f, g)
      PROVE  /\ ~AllSpace(t, f, g) /\ ~IsSymbol(t, f, g) /\ ~IsPaired(t, f, g) /\ ~IsString(t, f, g)
             /\ ~IsBroken(t, f, g) /\ ~IsWord(t, f, g) /\ ~IsAlone(t, f, g)
  BY <1>1, <1>2, ByFirst, Classes
<1>3. KindOf(t, f, e, kw) = "LIT_NUM"
  <2>1. IsNumber(t, f, e)
    BY DEF IsNumber
  <2> QED BY <1>1, <1>2, <2>1, KindCases
<1>4. ASSUME NEW g \in Starts(t) \cup {Len(t) + 1}, g > e
      PROVE  KindOf(t, f, g, kw) = "none"
  <2>1. /\ Slice(t, f, g) /\ e \in 1..Len(t) /\ e \in Chars(t, f, g) /\ f \in Chars(t, f, g)
        /\ Chars(t, f, e) \subseteq Chars(t, f, g)
    BY <1>1, <1>4, LongerSlice
  <2>2. ~IsNumber(t, f, g)
    <3>1. CASE CharAt(t, e) \notin Digits \cup {Dot}
      BY <2>1, <3>1 DEF IsNumber
    <3>2. CASE CharAt(t, e) = Dot /\ Cardinality(Dots(t, f, e)) = 1
      <4>1. /\ IsFiniteSet(Chars(t, f, e)) /\ IsFiniteSet(Chars(t, f, g)) /\ e \notin Chars(t, f, e)
        BY <2>1, SliceChars
      <4>2. /\ IsFiniteSet(Dots(t, f, e)) /\ IsFiniteSet(Dots(t, f, g)) /\ e \notin Dots(t, f, e)
            /\ Dots(t, f, e) \cup {e} \subseteq Dots(t, f, g)
        <5>1. Dots(t, f, e) \subseteq Chars(t, f, e) /\ Dots(t, f, g) \subseteq Chars(t, f, g)
          BY DEF Dots
        <5>2. Dots(t, f, e) \cup {e} \subseteq Dots(t, f, g)
          BY <2>1, <3>2 DEF Dots
        <5> QED BY <4>1, <5>1, <5>2, FS_Subset
      <4>3. Cardinality(Dots(t, f, e) \cup {e}) = 2
        BY <3>2, <4>2, FS_AddElement
      <4>4. 2 <= Cardinality(Dots(t, f, g)) /\ Cardinality(Dots(t, f, g)) \in Nat
        BY <4>2, <4>3, FS_Subset, FS_CardinalityType
      <4> QED BY <4>4 DEF IsNumber
    <3> QED BY <2>1, <3>1, <3>2 DEF Slice
  <2> QED BY <1>2, <2>1, <2>2, KindCases
<1> QED BY <1>3, <1>4 DEF IsToken, Longest

(* A word up to a character that belongs to no word.                       *)
LEMMA WordToken ==
  ASSUME NEW t, NEW f, NEW e, NEW kw, Slice(t, f, e), Starter(CharAt(t, f)),
         \A at \in Chars(t, f, e) : WordChar(CharAt(t, at)) \/ CharAt(t, at) = Stray,
         e > Len(t) \/ (~WordChar(CharAt(t, e)) /\ CharAt(t, e) # Stray)
  PROVE  IsToken(t, f, e, kw, IF SubSeq(t, f, e - 1) \in DOMAIN kw
                              THEN kw[SubSeq(t, f, e - 1)] ELSE "IDENTIFIER")
PROOF
<1>1. f \in Chars(t, f, e) /\ CharAt(t, f) \in Int
  BY SliceChars
<1>2. ASSUME NEW g, f \in Chars(t, f, g)
      PROVE  /\ ~AllSpace(t, f, g) /\ ~IsSymbol(t, f, g) /\ ~IsPaired(t, f, g) /\ ~IsNumber(t, f, g)
             /\ ~IsString(t, f, g) /\ ~IsBroken(t, f, g) /\ ~IsAlone(t, f, g)
  BY <1>1, <1>2, ByFirst, Classes DEF Starter
<1>3. KindOf(t, f, e, kw) = IF SubSeq(t, f, e - 1) \in DOMAIN kw
                            THEN kw[SubSeq(t, f, e - 1)] ELSE "IDENTIFIER"
  <2>1. IsWord(t, f, e)
    BY DEF IsWord
  <2> QED BY <1>1, <1>2, <2>1, KindCases
<1>4. ASSUME NEW g \in Starts(t) \cup {Len(t) + 1}, g > e
      PROVE  KindOf(t, f, g, kw) = "none"
  <2>1. Slice(t, f, g) /\ e \in 1..Len(t) /\ e \in Chars(t, f, g) /\ f \in Chars(t, f, g)
    BY <1>1, <1>4, LongerSlice
  <2>2. ~IsWord(t, f, g)
    BY <2>1 DEF IsWord
  <2> QED BY <1>2, <2>1, <2>2, KindCases
<1> QED BY <1>3, <1>4 DEF IsToken, Longest

(* A string: at is its last character.                                     *)
LEMMA StringToken ==
  ASSUME NEW t, NEW f, NEW at, NEW e, NEW kw, Slice(t, f, e), Slice(t, f, at),
         Chars(t, f, e) = Chars(t, f, at) \cup {at},
         CharAt(t, f) = Quote, \A p \in Chars(t, f, at) \ {f} : Plain(CharAt(t, p)),
         ~Plain(CharAt(t, at))
  PROVE  IsToken(t, f, e, kw, IF CharAt(t, at) = Quote THEN "LIT_STRING" ELSE "INVALID")
PROOF
<1>1. /\ f \in Chars(t, f, e) /\ CharAt(t, f) \in Int
      /\ f # at /\ at \in Chars(t, f, e)
  BY SliceChars DEF Slice
<1>2. ASSUME NEW g, f \in Chars(t, f, g)
      PROVE  /\ ~AllSpace(t, f, g) /\ ~IsSymbol(t, f, g) /\ ~IsPaired(t, f, g) /\ ~IsNumber(t, f, g)
             /\ ~IsWord(t, f, g) /\ ~IsAlone(t, f, g)
  BY <1>1, <1>2, ByFirst, Classes DEF Starter
<1>3. LastOf(Chars(t, f, e)) = at
  <2>1. /\ LastOf(Chars(t, f, e)) \in Chars(t, f, e)
        /\ at <= LastOf(Chars(t, f, e)) /\ LastOf(Chars(t, f, e)) \in Int /\ at \in Int
    <3>1. Chars(t, f, e) \subseteq 1..Len(t) /\ 1..Len(t) \subseteq Int
      BY SliceChars
    <3>2. LastOf(Chars(t, f, e)) \in Chars(t, f, e) /\ at <= LastOf(Chars(t, f, e))
      BY <1>1, SliceChars
    <3> QED BY <1>1, <3>1, <3>2
  <2>2. \A p \in Chars(t, f, at) : p < at
    BY DEF Chars, Slice
  <2> QED BY <2>1, <2>2
<1>4. PlainInside(t, f, e)
  BY <1>3 DEF PlainInside
<1>5. KindOf(t, f, e, kw) = IF CharAt(t, at) = Quote THEN "LIT_STRING" ELSE "INVALID"
  <2>1. CASE CharAt(t, at) = Quote
    <3>1. IsString(t, f, e)
      BY <1>1, <1>3, <1>4, <2>1 DEF IsString
    <3>2. ~IsBroken(t, f, e)
      BY <1>1, <1>3, <2>1 DEF IsBroken, Plain, LineBreaks, Quote, Stray
    <3> QED BY <1>1, <1>2, <2>1, <3>1, <3>2, KindCases
  <2>2. CASE CharAt(t, at) # Quote
    <3>1. ~IsString(t, f, e)
      BY <1>3, <2>2 DEF IsString
    <3>2. IsBroken(t, f, e)
      BY <1>1, <1>3, <1>4, <2>2 DEF IsBroken, Plain
    <3> QED BY <1>1, <1>2, <2>2, <3>1, <3>2, KindCases
  <2> QED BY <2>1, <2>2
<1>6. ASSUME NEW g \in Starts(t) \cup {Len(t) + 1}, g > e
      PROVE  KindOf(t, f, g, kw) = "none"
  <2>1. /\ Slice(t, f, g) /\ e \in Chars(t, f, g) /\ f \in Chars(t, f, g) /\ at \in Chars(t, f, g)
    BY <1>1, <1>6, LongerSlice
  <2>2. LastOf(Chars(t, f, g)) # at
    <3>1. e <= LastOf(Chars(t, f, g))
      BY <2>1, SliceChars
    <3>2. at < e
      BY <1>1 DEF Chars, Slice
    <3> QED BY <3>1, <3>2 DEF Slice
  <2>3. ~PlainInside(t, f, g)
    BY <1>1, <2>1, <2>2 DEF PlainInside
  <2>4. ~IsString(t, f, g) /\ ~IsBroken(t, f, g)
    BY <2>3 DEF IsString, IsBroken
  <2> QED BY <1>2, <2>1, <2>4, KindCases
<1> QED BY <1>5, <1>6 DEF IsToken, Longest

(* A string that the text ends in.                                         *)
LEMMA UnterminatedToken ==
  ASSUME NEW t, NEW f, NEW e, NEW kw, Slice(t, f, e), e = Len(t) + 1,
         CharAt(t, f) = Quote, \A p \in Chars(t, f, e) \ {f} : Plain(CharAt(t, p))
  PROVE  IsToken(t, f, e, kw, "INVALID")
PROOF
<1> DEFINE last == LastOf(Chars(t, f, e))
<1>1. /\ f \in Chars(t, f, e) /\ CharAt(t, f) \in Int /\ last \in Chars(t, f, e)
  BY SliceChars
<1>2. /\ ~AllSpace(t, f, e) /\ ~IsSymbol(t, f, e) /\ ~IsPaired(t, f, e) /\ ~IsNumber(t, f, e)
      /\ ~IsWord(t, f, e) /\ ~IsAlone(t, f, e)
  BY <1>1, ByFirst, Classes DEF Starter
<1>3. PlainInside(t, f, e) /\ (last = f \/ Plain(CharAt(t, last)))
  BY <1>1 DEF PlainInside
<1>4. ~IsString(t, f, e) /\ IsBroken(t, f, e)
  BY <1>3 DEF IsString, IsBroken, Plain
<1>5. KindOf(t, f, e, kw) = "INVALID"
  BY <1>2, <1>4, KindCases
<1>6. \A g \in Starts(t) \cup {Len(t) + 1} : ~(g > e)
  BY DEF Starts, Slice
<1> QED BY <1>5, <1>6 DEF IsToken, Longest

(* A character that is a token by itself, of a kind found before.          *)
LEMMA AloneToken ==
  ASSUME NEW t, NEW f, NEW e, NEW kw, NEW kind, Slice(t, f, e), Chars(t, f, e) = {f},
         \/ /\ CharAt(t, f) \in SymbolCodes
            /\ kind = CHOOSE k \in DOMAIN Symbol : CharAt(t, f) \in Symbol[k]
         \/ IsAlone(t, f, e) /\ kind = "INVALID",
         CharAt(t, f) \in DOMAIN WithEquals /\ e <= Len(t) => CharAt(t, e) # Equals
  PROVE  IsToken(t, f, e, kw, kind)
PROOF
<1>1. f \in Chars(t, f, e) /\ CharAt(t, f) \in Int
  BY SliceChars
<1>2. CharAt(t, f) \in SymbolCodes <=> ~IsAlone(t, f, e)
  BY <1>1, ByFirst
<1>3. ASSUME NEW g, f \in Chars(t, f, g)
      PROVE  /\ ~AllSpace(t, f, g) /\ ~IsNumber(t, f, g) /\ ~IsString(t, f, g)
             /\ ~IsBroken(t, f, g) /\ ~IsWord(t, f, g)
  <2>1. CASE CharAt(t, f) \in SymbolCodes
    BY <1>1, <1>3, <2>1, ByFirst, Classes DEF Starter
  <2>2. CASE IsAlone(t, f, e)
    BY <1>1, <1>3, <2>2, ByFirst DEF Starter
  <2> QED BY <1>2, <2>1, <2>2
<1>4. ~IsPaired(t, f, e)
  BY <1>1 DEF IsPaired, Slice
<1>5. KindOf(t, f, e, kw) = kind
  <2>1. CASE CharAt(t, f) \in SymbolCodes
    <3>1. IsSymbol(t, f, e) /\ ~IsAlone(t, f, e) /\ kind = CHOOSE k \in DOMAIN Symbol : CharAt(t, f) \in Symbol[k]
      BY <1>2, <2>1 DEF IsSymbol
    <3> QED BY <1>1, <1>3, <1>4, <3>1, KindCases
  <2>2. CASE IsAlone(t, f, e)
    <3>1. ~IsSymbol(t, f, e) /\ kind = "INVALID"
      BY <1>2, <2>2 DEF IsSymbol
    <3> QED BY <1>1, <1>3, <1>4, <2>2, <3>1, KindCases
  <2> QED BY <1>2, <2>1, <2>2
<1>6. ASSUME NEW g \in Starts(t) \cup {Len(t) + 1}, g > e
      PROVE  KindOf(t, f, g, kw) = "none"
  <2>1. Slice(t, f, g) /\ e \in 1..Len(t) /\ e \in Chars(t, f, g) /\ f \in Chars(t, f, g) /\ e # f
    BY <1>1, <1>6, LongerSlice DEF Slice
  <2>2. ~IsSymbol(t, f, g) /\ ~IsAlone(t, f, g)
    BY <2>1 DEF IsSymbol, IsAlone
  <2>3. ~IsPaired(t, f, g)
    <3>1. IsPaired(t, f, g) => LastOf(Chars(t, f, g)) = e
      BY <2>1 DEF IsPaired
    <3> QED BY <2>1, <3>1 DEF IsPaired, Slice
  <2> QED BY <1>3, <2>1, <2>2, <2>3, KindCases
<1> QED BY <1>5, <1>6 DEF IsToken, Longest

(* An operator with its equals sign.                                       *)
LEMMA PairedToken ==
  ASSUME NEW t, NEW f, NEW at, NEW e, NEW kw, Slice(t, f, e), Chars(t, f, e) = {f, at}, f # at,
         CharAt(t, f) \in DOMAIN WithEquals, CharAt(t, at) = Equals
  PROVE  IsToken(t, f, e, kw, WithEquals[CharAt(t, f)])
PROOF
<1>1. f \in Chars(t, f, e) /\ CharAt(t, f) \in Int /\ at \in Chars(t, f, e) /\ LastOf(Chars(t, f, e)) = at
  <2>1. /\ f \in Chars(t, f, e) /\ at \in Chars(t, f, e) /\ CharAt(t, f) \in Int
        /\ LastOf(Chars(t, f, e)) \in {f, at} /\ at <= LastOf(Chars(t, f, e))
    BY SliceChars
  <2>2. f \in Int /\ at \in Int /\ f < at
    BY <2>1 DEF Slice, Chars
  <2> QED BY <2>1, <2>2
<1>2. ASSUME NEW g, f \in Chars(t, f, g)
      PROVE  /\ ~AllSpace(t, f, g) /\ ~IsNumber(t, f, g) /\ ~IsString(t, f, g)
             /\ ~IsBroken(t, f, g) /\ ~IsWord(t, f, g)
  BY <1>1, <1>2, ByFirst, Classes DEF Starter
<1>3. IsPaired(t, f, e) /\ ~IsSymbol(t, f, e) /\ ~IsAlone(t, f, e)
  BY <1>1 DEF IsPaired, IsSymbol, IsAlone
<1>4. KindOf(t, f, e, kw) = WithEquals[CharAt(t, f)]
  BY <1>1, <1>2, <1>3, KindCases
<1>5. ASSUME NEW g \in Starts(t) \cup {Len(t) + 1}, g > e
      PROVE  KindOf(t, f, g, kw) = "none"
  <2>1. /\ Slice(t, f, g) /\ e \in Chars(t, f, g) /\ f \in Chars(t, f, g)
        /\ e \notin Chars(t, f, e) /\ at \in Chars(t, f, g)
    BY <1>1, <1>5, LongerSlice, SliceChars
  <2>2. ~IsSymbol(t, f, g) /\ ~IsPaired(t, f, g) /\ ~IsAlone(t, f, g)
    BY <1>1, <2>1 DEF IsSymbol, IsPaired, IsAlone
  <2> QED BY <1>2, <2>1, <2>2, KindCases
<1> QED BY <1>4, <1>5 DEF IsToken, Longest

(* The kinds the tables of the lexer give are those of the symbols.        *)
LEMMA SymbolKinds ==
  /\ \A s \in singleCharTokens : s.kind = CHOOSE k \in DOMAIN Symbol : s.codepoint \in Symbol[k]
  /\ \A o \in Operators : /\ o.paired = WithEquals[o.codepoint]
                          /\ o.codepoint = 33 => o.alone = "INVALID"
                          /\ o.codepoint # 33 =>
                               o.alone = CHOOSE k \in DOMAIN Symbol : o.codepoint \in Symbol[k]
PROOF
<1> DEFINE Kinds == {"LPAREN", "RPAREN", "LBRACE", "RBRACE", "LBRACKET", "RBRACKET", "COMMA", "SEMICOLON",
                     "COLON", "DOT", "PLUS", "MINUS", "MUL", "DIV", "PIPE", "LESS", "ASSIGN", "GREATER"}
<1>1. DOMAIN Symbol = Kinds
  BY DEF Symbol
<1>2. /\ Symbol["LPAREN"] = {40} /\ Symbol["RPAREN"] = {41} /\ Symbol["LBRACE"] = {123}
      /\ Symbol["RBRACE"] = {125} /\ Symbol["LBRACKET"] = {91} /\ Symbol["RBRACKET"] = {93}
      /\ Symbol["COMMA"] = {44, 1548} /\ Symbol["SEMICOLON"] = {1563} /\ Symbol["COLON"] = {58}
      /\ Symbol["DOT"] = {46} /\ Symbol["PLUS"] = {43} /\ Symbol["MINUS"] = {45} /\ Symbol["MUL"] = {42}
      /\ Symbol["DIV"] = {47} /\ Symbol["PIPE"] = {124} /\ Symbol["LESS"] = {60}
      /\ Symbol["ASSIGN"] = {61} /\ Symbol["GREATER"] = {62}
  BY DEF Symbol
<1>3. \A k, j \in Kinds : \A c \in Symbol[k] : c \in Symbol[j] => j = k
  BY <1>2
<1>4. ASSUME NEW k \in Kinds, NEW c \in Symbol[k]
      PROVE  k = CHOOSE j \in DOMAIN Symbol : c \in Symbol[j]
  BY <1>1, <1>3
<1>5. \A s \in singleCharTokens : s.kind \in Kinds /\ s.codepoint \in Symbol[s.kind]
  <2>1. \A cp, kind : Single(cp, kind).codepoint = cp /\ Single(cp, kind).kind = kind
    BY DEF Single
  <2> QED BY <1>2, <2>1 DEF singleCharTokens
<1>6. \A o \in Operators :
        /\ o.codepoint = 33 => o.alone = "INVALID"
        /\ o.codepoint # 33 => o.alone \in Kinds /\ o.codepoint \in Symbol[o.alone]
        /\ o.paired = WithEquals[o.codepoint]
  <2>1. \A cp, alone, paired : /\ Operator(cp, alone, paired).codepoint = cp
                               /\ Operator(cp, alone, paired).alone = alone
                               /\ Operator(cp, alone, paired).paired = paired
    BY DEF Operator
  <2>2. /\ WithEquals[33] = "NOT_EQUAL" /\ WithEquals[60] = "LESS_EQUAL"
        /\ WithEquals[61] = "EQUAL" /\ WithEquals[62] = "GREATER_EQUAL"
    BY DEF WithEquals
  <2> QED BY <1>2, <2>1, <2>2 DEF Operators
<1> QED BY <1>4, <1>5, <1>6

-----------------------------------------------------------------------------
(* What the lexer sees at the cursor is the character there.               *)
LEMMA Looking ==
  ASSUME FullInv
  PROVE  /\ pos \in 1..Len(text) + 1 /\ ~Inside(text, pos) /\ text \in Seq(Byte)
         /\ AtEnd <=> pos = Len(text) + 1
         /\ ~AtEnd => CharAt(text, pos) \in Int /\ (Peeked.valid <=> CharAt(text, pos) # Stray)
         /\ InWhitespace <=> ~AtEnd /\ CharAt(text, pos) \in Space
         /\ InNumber <=> ~AtEnd /\ CharAt(text, pos) \in Digits
         /\ InWord <=> ~AtEnd /\ (WordChar(CharAt(text, pos)) \/ CharAt(text, pos) = Stray)
         /\ \A codes : Stray \notin codes => (Peek(codes) <=> ~AtEnd /\ CharAt(text, pos) \in codes)
         /\ ~AtEnd => (EndsString <=> ~Plain(CharAt(text, pos)))
PROOF
<1>1. pos \in 1..Len(text) + 1 /\ ~Inside(text, pos) /\ text \in Seq(Byte)
  BY DEF FullInv, IInv, TypeInv, Outside
<1>2. AtEnd <=> pos = Len(text) + 1
  BY <1>1 DEF AtEnd
<1>3. CASE AtEnd
  BY <1>1, <1>2, <1>3 DEF InWhitespace, InNumber, InWord, Peek
<1>4. CASE ~AtEnd
  <2>1. /\ CharAt(text, pos) \in Int
        /\ Peeked.valid <=> CharAt(text, pos) # Stray
        /\ CharAt(text, pos) # Stray => Peeked.codepoint = CharAt(text, pos)
    BY <1>1, <1>2, <1>4, DecodedIsChar DEF Peeked
  <2>2. /\ Stray \notin Space /\ Stray \notin Digits
        /\ Peeked.valid => /\ IsWhitespace(Peeked.codepoint) <=> CharAt(text, pos) \in Space
                           /\ IsDigit(Peeked.codepoint) <=> CharAt(text, pos) \in Digits
                           /\ IsIdentChar(Peeked.codepoint) <=> WordChar(CharAt(text, pos))
    BY <2>1, ClassesAgree DEF Space, Digits, Stray
  <2>3. EndsString <=> ~Plain(CharAt(text, pos))
    BY <2>1, ClassesAgree DEF EndsString, Plain
  <2> QED BY <1>1, <1>2, <1>4, <2>1, <2>2, <2>3 DEF InWhitespace, InNumber, InWord, Peek
<1> QED BY <1>3, <1>4

(* getChar takes the character at the cursor and counts it.                *)
LEMMA Getting ==
  ASSUME FullInv, ~AtEnd, GetChar, text' = text
  PROVE  /\ Slice(text, pos, pos') /\ Chars(text, pos, pos') = {pos} /\ pos < pos'
         /\ \A from \in 1..pos : Chars(text, from, pos') = Chars(text, from, pos) \cup {pos}
         /\ Placed(pos, line, column)'
PROOF
<1>1. pos \in 1..Len(text) /\ ~Inside(text, pos) /\ text \in Seq(Byte)
  BY Looking
<1>2. pos < pos' /\ Outside(text, pos')
  BY GetCharLemma DEF FullInv, IInv
<1>3. pos' = pos + Decoded(text, pos).byteCount
  BY DEF GetChar, Peeked
<1>4. \A from \in 1..pos : Chars(text, from, pos') = Chars(text, from, pos) \cup {pos} /\ Chars(text, pos, pos) = {}
  BY <1>1, <1>3, CharsTaken
<1>5. Slice(text, pos, pos') /\ Chars(text, pos, pos') = {pos}
  BY <1>1, <1>2, <1>4 DEF Slice, Outside
<1>6. Placed(pos, line, column)'
  <2>1. Peeked.codepoint = NewLine <=> CharAt(text, pos) = Newline
    BY <1>1, DecodedIsChar DEF Peeked
  <2>2. line = LineOf(text, pos) /\ column = ColumnOf(text, pos)
    BY DEF FullInv, Placed
  <2>3. line' = LineOf(text, pos') /\ column' = ColumnOf(text, pos')
    BY <1>1, <1>3, <2>1, <2>2, PlaceAfter DEF GetChar
  <2> QED BY <2>3 DEF Placed
<1> QED BY <1>2, <1>4, <1>5, <1>6

(* The token returned is a good one.                                       *)
LEMMA EmitGood ==
  ASSUME FullInv, IInv', text' = text, seenDot' \in BOOLEAN, NEW kind, NEW from, Emit(kind, from),
         from.at \in Int,
         Placed(from.at, from.line, from.column), Placed(pos, line, column)',
         \/ from.at <= Len(text) /\ IsToken(text, from.at, pos', Keywords, kind)
         \/ from.at > Len(text) /\ kind = "ENDF" /\ pos' = from.at
  PROVE  FullInv'
PROOF
<1> DEFINE token == [kind |-> kind, from |-> from.at, to |-> pos', line |-> from.line, column |-> from.column]
<1>1. tokens' = Append(tokens, token) /\ reading' = "none"
  BY DEF Emit
<1>2. tokens \in Seq([kind : TokenType, from : Int, to : Int, line : Int, column : Int])
  BY DEF FullInv, IInv, TypeInv
<1>3. Good(token)
  <2>1. token.from = from.at /\ token.to = pos' /\ token.kind = kind
        /\ token.line = from.line /\ token.column = from.column
    OBVIOUS
  <2>2. CASE from.at <= Len(text) /\ IsToken(text, from.at, pos', Keywords, kind)
    <3> HIDE DEF token
    <3>1. ~(token.from > Len(text))
      BY <2>1, <2>2 DEF FullInv, IInv, TypeInv
    <3> QED BY <2>1, <2>2, <3>1 DEF Good, IsToken
  <2>3. CASE from.at > Len(text) /\ kind = "ENDF" /\ pos' = from.at
    <3> HIDE DEF token
    <3> QED BY <2>1, <2>3 DEF Good
  <2> QED BY <2>2, <2>3
<1>4. ASSUME NEW k \in DOMAIN tokens' PROVE Good(tokens'[k])
  <2>1. k \in DOMAIN tokens \/ k = Len(tokens) + 1
    BY <1>1, <1>2
  <2>2. k \in DOMAIN tokens => tokens'[k] = tokens[k]
    BY <1>1, <1>2
  <2>3. k = Len(tokens) + 1 => tokens'[k] = token
    BY <1>1, <1>2
  <2> HIDE DEF token
  <2> QED BY <1>3, <2>1, <2>2, <2>3 DEF FullInv
<1>5. Taken'
  BY <1>1 DEF Taken
<1>6. \A k \in DOMAIN tokens' : Good(tokens[k])'
  BY <1>4 DEF Good, Placed
<1> QED BY <1>1, <1>5, <1>6 DEF FullInv

(* A reader goes on.                                                       *)
LEMMA TakeGood ==
  ASSUME FullInv, IInv', ~AtEnd, Take, reading # "none", seenDot' \in BOOLEAN, Taken'
  PROVE  FullInv'
PROOF
<1>1. /\ text' = text /\ reading' = reading /\ start' = start /\ tokens' = tokens /\ GetChar
  BY DEF Take
<1>2. Placed(pos, line, column)'
  BY <1>1, Getting
<1>3. Outside(text, start.at)' /\ Placed(start.at, start.line, start.column)'
  BY <1>1 DEF FullInv, Outside, Placed
<1>4. \A k \in DOMAIN tokens' : Good(tokens[k])'
  BY <1>1 DEF FullInv, Good, Placed
<1> QED BY <1>2, <1>3, <1>4 DEF FullInv

(* A reader is called.                                                     *)
LEMMA BeginGood ==
  ASSUME FullInv, IInv', NEW reader, Begin(reader), reader # "none", Placed(pos, line, column)',
         seenDot' \in BOOLEAN, Taken'
  PROVE  FullInv'
PROOF
<1>1. /\ text' = text /\ tokens' = tokens /\ reading' = reader
      /\ start' = [at |-> pos, line |-> line, column |-> column]
  BY DEF Begin, Here
<1>2. Outside(text, start.at)' /\ Placed(start.at, start.line, start.column)'
  BY <1>1 DEF FullInv, IInv, TypeInv, Outside, Placed
<1>3. \A k \in DOMAIN tokens' : Good(tokens[k])'
  BY <1>1 DEF FullInv, Good, Placed
<1> QED BY <1>2, <1>3 DEF FullInv

(* What a reader that has taken a character holds.                         *)
LEMMA Holding ==
  ASSUME FullInv, reading # "none", start.at < pos
  PROVE  /\ Slice(text, start.at, pos)
         /\ start.at \in Chars(text, start.at, pos)
         /\ start.at <= Len(text)
         /\ pos > Len(text) <=> AtEnd
PROOF
<1>1. /\ text \in Seq(Byte) /\ pos \in 1..Len(text) + 1 /\ ~Inside(text, pos)
      /\ start.at \in 1..Len(text) + 1 /\ ~Inside(text, start.at)
  BY DEF FullInv, IInv, TypeInv, Outside
<1>2. Slice(text, start.at, pos) /\ start.at <= Len(text)
  BY <1>1 DEF Slice
<1> QED BY <1>1, <1>2, SliceChars DEF AtEnd

-----------------------------------------------------------------------------
(* Nothing is taken before the first step.                                *)
THEOREM GoodInitially == Init => FullInv
PROOF
<1> SUFFICES ASSUME Init PROVE FullInv
  OBVIOUS
<1>1. IInv
  BY Initially
<1>2. /\ text \in Seq(Byte) /\ pos = 1 /\ line = 1 /\ column = 1 /\ reading = "none" /\ tokens = <<>>
      /\ seenDot = FALSE
  BY TextsAssumption DEF Init
<1>3. Placed(1, 1, 1)
  <2>1. \A p \in Starts(text) : ~(p < 1)
    BY <1>2 DEF Starts
  <2>2. /\ {p \in Starts(text) : p < 1 /\ CharAt(text, p) = Newline} = {}
        /\ {p \in Starts(text) :
              p < 1 /\ \A q \in Starts(text) : p <= q /\ q < 1 => CharAt(text, q) # Newline} = {}
    BY <2>1
  <2>3. LineOf(text, 1) = 1 + Cardinality({}) /\ ColumnOf(text, 1) = 1 + Cardinality({})
    BY <2>2 DEF LineOf, ColumnOf
  <2> QED BY <2>3, FS_EmptySet DEF Placed
<1>4. Taken
  BY <1>2 DEF Taken
<1>5. Placed(pos, line, column) /\ DOMAIN tokens = {}
  BY <1>2, <1>3
<1> QED BY <1>1, <1>2, <1>4, <1>5 DEF FullInv

(* Each step takes the character at the cursor into the slice of its       *)
(* reader, begins a slice or returns a token.                              *)
THEOREM GoodStep == FullInv /\ [Next]_vars => FullInv'
PROOF
<1> SUFFICES ASSUME FullInv, [Next]_vars PROVE FullInv'
  OBVIOUS
<1>i. IInv' /\ IInv
  BY Stepwise DEF FullInv
<1>t. /\ text \in Seq(Byte) /\ Len(text) \in Nat /\ pos \in Int /\ start.at \in 1..pos /\ seenDot \in BOOLEAN
      /\ Placed(pos, line, column) /\ Placed(Here.at, Here.line, Here.column) /\ Here.at = pos
      /\ start.at \in Int
      /\ reading # "none" => Placed(start.at, start.line, start.column)
  BY DEF FullInv, IInv, TypeInv, Outside, Here, Placed
<1>m. Stray \notin {33, 60, 61, 62} /\ Stray \notin {Quote} /\ Stray \notin {Dot} /\ Stray \notin {Equals}
      /\ EqualsSign = Equals /\ QuoteMark = Quote /\ FullStop = Dot
  BY DEF Stray, Quote, Dot, Equals, EqualsSign, QuoteMark, FullStop
<1>1. CASE ReturnEnd
  <2>1. /\ text' = text /\ seenDot' = seenDot /\ pos' = pos /\ line' = line /\ column' = column
        /\ Emit("ENDF", Here) /\ pos > Len(text)
    BY <1>1 DEF ReturnEnd, position, AtEnd
  <2>2. Placed(pos, line, column)'
    BY <1>t, <2>1 DEF Placed
  <2> QED BY <1>i, <1>t, <2>1, <2>2, EmitGood
<1>2. CASE ReturnInvalid
  <2>1. /\ text' = text /\ seenDot' = seenDot /\ GetChar /\ Emit("INVALID", Here) /\ ~AtEnd /\ ~Peeked.valid
    BY <1>2 DEF ReturnInvalid
  <2>2. /\ Slice(text, pos, pos') /\ Chars(text, pos, pos') = {pos} /\ Placed(pos, line, column)'
        /\ CharAt(text, pos) = Stray /\ pos <= Len(text)
    BY <1>t, <2>1, Getting, Looking DEF AtEnd
  <2>3. IsAlone(text, pos, pos')
    BY <2>2, Classes DEF IsAlone, Stray, WordChar, Space, Digits, Quote
  <2>4. CharAt(text, pos) \notin DOMAIN WithEquals
    BY <2>2 DEF WithEquals, Stray
  <2>5. IsToken(text, pos, pos', Keywords, "INVALID")
    BY <2>2, <2>3, <2>4, AloneToken
  <2> QED BY <1>i, <1>t, <2>1, <2>2, <2>5, EmitGood
<1>3. CASE ReturnSingle
  <2>1. PICK s \in singleCharTokens : Peek({s.codepoint}) /\ GetChar /\ Emit(s.kind, Here)
    BY <1>3 DEF ReturnSingle
  <2>2. text' = text /\ seenDot' = seenDot /\ ~AtEnd
    BY <1>3, <2>1 DEF ReturnSingle, Peek
  <2>3. s.codepoint \in SingleCodes /\ s.codepoint \in Int
    <3>1. \A cp, kind : Single(cp, kind).codepoint = cp
      BY DEF Single
    <3> QED BY <3>1 DEF SingleCodes, singleCharTokens
  <2>4. /\ s.codepoint \in SymbolCodes /\ s.codepoint \notin DOMAIN WithEquals /\ s.codepoint # Stray
    <3>1. s.codepoint \in SymbolCodes /\ s.codepoint # Stray
      BY <2>3, Classes
    <3>2. s.codepoint \notin {33, 60, 61, 62}
      <4>1. \A cp, kind : Single(cp, kind).codepoint = cp
        BY DEF Single
      <4> QED BY <4>1 DEF singleCharTokens
    <3> QED BY <2>3, <3>1, <3>2, Classes
  <2>5. /\ Slice(text, pos, pos') /\ Chars(text, pos, pos') = {pos} /\ Placed(pos, line, column)'
        /\ CharAt(text, pos) = s.codepoint /\ pos <= Len(text)
    <3>1. Stray \notin {s.codepoint}
      BY <2>4
    <3> QED BY <1>t, <2>1, <2>2, <3>1, Getting, Looking DEF AtEnd
  <2>6. IsToken(text, pos, pos', Keywords, s.kind)
    BY <2>4, <2>5, AloneToken, SymbolKinds
  <2> QED BY <1>i, <1>t, <2>1, <2>2, <2>5, <2>6, EmitGood
<1>z. Chars(text, pos, pos) = {}
  BY <1>t DEF Chars
<1>4. CASE BeginWhitespace
  <2>1. /\ Begin("whitespace") /\ pos' = pos /\ line' = line /\ column' = column /\ seenDot' = seenDot
        /\ text' = text /\ reading' = "whitespace" /\ start'.at = pos
    BY <1>4 DEF BeginWhitespace, Begin, position, Here
  <2>2. Taken' /\ Placed(pos, line, column)'
    BY <1>t, <1>z, <2>1 DEF Taken, Placed
  <2> QED BY <1>i, <1>t, <2>1, <2>2, BeginGood
<1>5. CASE BeginString
  <2>1. /\ Begin("string") /\ GetChar /\ Peek({Quote}) /\ ~AtEnd /\ seenDot' = seenDot
        /\ text' = text /\ reading' = "string" /\ start'.at = pos
    BY <1>5, <1>m DEF BeginString, Begin, Here, Peek
  <2>2. Chars(text, pos, pos') = {pos} /\ Placed(pos, line, column)' /\ CharAt(text, pos) = Quote
    BY <1>m, <2>1, Getting, Looking
  <2>3. Taken'
    BY <2>1, <2>2 DEF Taken
  <2> QED BY <1>i, <1>t, <2>1, <2>2, <2>3, BeginGood
<1>6. CASE BeginNumber
  <2>1. /\ Begin("number") /\ pos' = pos /\ line' = line /\ column' = column /\ seenDot' = FALSE
        /\ text' = text /\ reading' = "number" /\ start'.at = pos
    BY <1>6 DEF BeginNumber, Begin, position, Here
  <2>2. Dots(text, pos, pos) = {}
    BY <1>z DEF Dots
  <2>3. Taken'
    BY <1>t, <1>z, <2>1, <2>2, FS_EmptySet DEF Taken
  <2>4. Placed(pos, line, column)'
    BY <1>t, <2>1 DEF Placed
  <2> QED BY <1>i, <1>t, <2>1, <2>3, <2>4, BeginGood
<1>7. CASE BeginOperator
  <2>1. /\ Begin("operator") /\ GetChar /\ Peek(OperatorCodes) /\ ~AtEnd /\ seenDot' = seenDot
        /\ text' = text /\ reading' = "operator" /\ start'.at = pos
    BY <1>7 DEF BeginOperator, Begin, Here, Peek
  <2>2. Stray \notin OperatorCodes
    BY <1>m, Classes
  <2>3. Chars(text, pos, pos') = {pos} /\ Placed(pos, line, column)' /\ CharAt(text, pos) \in OperatorCodes
    BY <2>1, <2>2, Getting, Looking
  <2>4. Taken'
    BY <2>1, <2>3 DEF Taken
  <2> QED BY <1>i, <1>t, <2>1, <2>3, <2>4, BeginGood
<1>8. CASE BeginWord
  <2>1. /\ Begin("word") /\ pos' = pos /\ line' = line /\ column' = column /\ seenDot' = seenDot
        /\ text' = text /\ reading' = "word" /\ start'.at = pos /\ ~AtEnd /\ Peeked.valid
        /\ ~IsWhitespace(Peeked.codepoint) /\ ~IsDigit(Peeked.codepoint)
        /\ Peeked.codepoint \notin OperatorCodes \cup SingleCodes \cup {QuoteMark}
    BY <1>8 DEF BeginWord, Begin, position, Here
  <2>2. CharAt(text, pos) = Peeked.codepoint /\ CharAt(text, pos) # Stray /\ CharAt(text, pos) \in Int
    BY <2>1, Looking, DecodedIsChar DEF Peeked
  <2>3. CharAt(text, pos) \notin Space \cup Digits \cup OperatorCodes \cup SingleCodes \cup {Quote, Stray}
    BY <1>m, <2>1, <2>2, ClassesAgree
  <2>4. Taken'
    BY <2>1, <2>3 DEF Taken
  <2>5. Placed(pos, line, column)'
    BY <1>t, <2>1 DEF Placed
  <2> QED BY <1>i, <1>t, <2>1, <2>4, <2>5, BeginGood
(* A step of a reader to the next character.                               *)
<1>g. ASSUME ~AtEnd, Take, reading # "none"
      PROVE  /\ text' = text /\ reading' = reading /\ start' = start
             /\ Chars(text', start'.at, pos') = Chars(text, start.at, pos) \cup {pos}
             /\ pos < pos' /\ pos \notin Chars(text, start.at, pos) /\ start'.at # pos'
             /\ CharAt(text, pos) \in Int
  <2>1. /\ text' = text /\ reading' = reading /\ start' = start /\ GetChar
    BY <1>g DEF Take
  <2>2. pos < pos' /\ \A from \in 1..pos : Chars(text, from, pos') = Chars(text, from, pos) \cup {pos}
    BY <1>g, <2>1, Getting
  <2>3. pos \notin Chars(text, start.at, pos) /\ pos' \in Int
    BY <1>i, <1>t DEF Chars, IInv, TypeInv, Outside
  <2>4. start.at < pos' /\ start.at \in 1..pos
    BY <1>t, <2>2, <2>3
  <2>5. CharAt(text, pos) \in Int
    BY <1>g, Looking
  <2>6. Chars(text, start.at, pos') = Chars(text, start.at, pos) \cup {pos}
    BY <2>2, <2>4
  <2>7. Chars(text', start'.at, pos') = Chars(text, start.at, pos) \cup {pos}
    BY <2>1, <2>6
  <2>8. start'.at # pos'
    BY <1>t, <2>1, <2>3, <2>4
  <2> QED BY <2>1, <2>2, <2>3, <2>5, <2>7, <2>8
(* A token of a reader that does not move.                                 *)
<1>s. ASSUME Stay, NEW kind, Return(kind), reading # "none", start.at < pos,
             IsToken(text, start.at, pos, Keywords, kind)
      PROVE  FullInv'
  <2>1. /\ text' = text /\ seenDot' = seenDot /\ pos' = pos /\ line' = line /\ column' = column
        /\ Emit(kind, start)
    BY <1>s DEF Stay, Return, position
  <2>2. Placed(pos, line, column)' /\ start.at <= Len(text)
    BY <1>s, <1>t, <2>1, Holding DEF Placed
  <2> QED BY <1>i, <1>s, <1>t, <2>1, <2>2, EmitGood
(* A token of a reader that takes one more character.                      *)
<1>l. ASSUME GetChar, ~AtEnd, NEW kind, Return(kind), reading # "none",
             IsToken(text, start.at, pos', Keywords, kind)
      PROVE  FullInv'
  <2>1. text' = text /\ seenDot' = seenDot /\ Emit(kind, start)
    BY <1>l DEF Return
  <2>2. Placed(pos, line, column)' /\ start.at <= Len(text)
    BY <1>l, <1>t, <2>1, Getting DEF AtEnd
  <2> QED BY <1>i, <1>l, <1>t, <2>1, <2>2, EmitGood
<1>9. CASE ReadWhitespace
  <2>1. ~AtEnd /\ Take /\ reading = "whitespace" /\ CharAt(text, pos) \in Space /\ seenDot' = seenDot
    BY <1>9, Looking DEF ReadWhitespace
  <2>2. \A at \in Chars(text, start.at, pos) : CharAt(text, at) \in Space
    BY <2>1 DEF FullInv, Taken
  <2>3. Taken'
    BY <1>g, <2>1, <2>2 DEF Taken
  <2> QED BY <1>i, <1>t, <2>1, <2>3, TakeGood
<1>10. CASE ReturnWhitespace
  <2>1. Stay /\ Return("WHITESPACE") /\ reading = "whitespace" /\ ~InWhitespace
    BY <1>10 DEF ReturnWhitespace
  <2>2. start.at < pos
    BY <1>i, <1>t, <2>1 DEF IInv, Entered
  <2>3. Slice(text, start.at, pos) /\ AllSpace(text, start.at, pos)
    BY <2>1, <2>2, Holding DEF FullInv, Taken, AllSpace
  <2>4. pos > Len(text) \/ CharAt(text, pos) \notin Space
    BY <2>1, Looking DEF AtEnd
  <2>5. IsToken(text, start.at, pos, Keywords, "WHITESPACE")
    BY <2>3, <2>4, SpaceToken
  <2> QED BY <1>s, <2>1, <2>2, <2>5
<1>11. CASE ReadString
  <2>1. /\ ~AtEnd /\ Take /\ reading = "string" /\ Plain(CharAt(text, pos)) /\ seenDot' = seenDot
        /\ start.at \in Chars(text, start.at, pos) /\ CharAt(text, start.at) = Quote
        /\ \A at \in Chars(text, start.at, pos) \ {start.at} : Plain(CharAt(text, at))
    BY <1>11, Looking DEF ReadString, FullInv, Taken
  <2>2. Taken'
    BY <1>g, <2>1 DEF Taken
  <2> QED BY <1>i, <1>t, <2>1, <2>2, TakeGood
<1>12. CASE ReturnString
  <2>1. /\ ~AtEnd /\ GetChar /\ reading = "string" /\ EndsString
        /\ Return(IF Peek({Quote}) THEN "LIT_STRING" ELSE "INVALID")
        /\ text' = text
    BY <1>12, <1>m DEF ReturnString, Return
  <2>2. /\ Slice(text, start.at, pos) /\ CharAt(text, start.at) = Quote
        /\ \A at \in Chars(text, start.at, pos) \ {start.at} : Plain(CharAt(text, at))
    <3>1. start.at < pos
      BY <1>i, <2>1 DEF IInv, Entered
    <3> QED BY <2>1, <3>1, Holding DEF FullInv, Taken
  <2>3. ~Plain(CharAt(text, pos)) /\ (Peek({Quote}) <=> CharAt(text, pos) = Quote)
    BY <1>m, <2>1, Looking
  <2>4. /\ Slice(text, start.at, pos')
        /\ Chars(text, start.at, pos') = Chars(text, start.at, pos) \cup {pos}
    <3>1. Slice(text, pos, pos') /\ Chars(text, start.at, pos') = Chars(text, start.at, pos) \cup {pos}
      BY <1>t, <2>1, Getting
    <3> QED BY <1>t, <2>2, <3>1 DEF Slice
  <2>5. IsToken(text, start.at, pos', Keywords, IF CharAt(text, pos) = Quote THEN "LIT_STRING" ELSE "INVALID")
    BY <2>2, <2>3, <2>4, StringToken
  <2> QED BY <1>l, <2>1, <2>3, <2>5
<1>13. CASE ReturnUnterminated
  <2>1. Stay /\ Return("INVALID") /\ reading = "string" /\ AtEnd
    BY <1>13 DEF ReturnUnterminated
  <2>2. start.at < pos /\ pos = Len(text) + 1
    BY <1>i, <1>t, <2>1, Looking DEF IInv, Entered
  <2>3. /\ Slice(text, start.at, pos) /\ CharAt(text, start.at) = Quote
        /\ \A at \in Chars(text, start.at, pos) \ {start.at} : Plain(CharAt(text, at))
    BY <2>1, <2>2, Holding DEF FullInv, Taken
  <2>4. IsToken(text, start.at, pos, Keywords, "INVALID")
    BY <2>2, <2>3, UnterminatedToken
  <2> QED BY <1>s, <2>1, <2>2, <2>4
<1>14. CASE ReadDigit
  <2>1. /\ ~AtEnd /\ Take /\ reading = "number" /\ CharAt(text, pos) \in Digits /\ seenDot' = seenDot
        /\ \A at \in Chars(text, start.at, pos) : CharAt(text, at) \in Digits \cup {Dot}
        /\ start.at < pos => CharAt(text, start.at) \in Digits
        /\ Cardinality(Dots(text, start.at, pos)) = IF seenDot THEN 1 ELSE 0
    BY <1>14, Looking DEF ReadDigit, FullInv, Taken
  <2>2. CharAt(text, pos) # Dot /\ CharAt(text, start.at) \in Digits
    BY <1>g, <1>t, <2>1, Classes
  <2>3. Dots(text', start'.at, pos') = Dots(text, start.at, pos)
    BY <1>g, <2>1, <2>2 DEF Dots
  <2>4. Taken'
    BY <1>g, <2>1, <2>2, <2>3 DEF Taken
  <2> QED BY <1>i, <1>t, <2>1, <2>4, TakeGood
<1>15. CASE ReadDot
  <2>1. /\ ~AtEnd /\ Take /\ reading = "number" /\ CharAt(text, pos) = Dot /\ seenDot = FALSE /\ seenDot' = TRUE
        /\ \A at \in Chars(text, start.at, pos) : CharAt(text, at) \in Digits \cup {Dot}
        /\ start.at < pos => CharAt(text, start.at) \in Digits
        /\ Cardinality(Dots(text, start.at, pos)) = 0
    BY <1>15, <1>m, <1>t, Looking DEF ReadDot, AtDot, Peek, FullInv, Taken
  <2>2. CharAt(text, start.at) \in Digits
    <3>1. start.at # pos
      BY <1>g, <1>i, <2>1, Looking, Classes DEF IInv, Entered
    <3> QED BY <1>t, <2>1, <3>1
  <2>3. Dots(text', start'.at, pos') = Dots(text, start.at, pos) \cup {pos}
    BY <1>g, <2>1 DEF Dots
  <2>4. Cardinality(Dots(text', start'.at, pos')) = 1
    <3>1. /\ IsFiniteSet(Dots(text, start.at, pos)) /\ pos \notin Dots(text, start.at, pos)
      <4>1. Dots(text, start.at, pos) \in SUBSET Starts(text)
        BY <1>t, <1>i DEF Dots, Chars, Starts, IInv, TypeInv, Outside
      <4> QED BY <1>g, <2>1, <4>1, StartsFinite, <1>t DEF Dots
    <3> QED BY <2>1, <2>3, <3>1, FS_AddElement
  <2>5. Taken'
    BY <1>g, <2>1, <2>2, <2>4 DEF Taken
  <2> QED BY <1>i, <1>t, <2>1, <2>5, TakeGood
<1>16. CASE ReturnNumber
  <2>1. Stay /\ Return("LIT_NUM") /\ reading = "number" /\ ~InNumber /\ ~AtDot
    BY <1>16 DEF ReturnNumber
  <2>2. start.at < pos
    BY <1>i, <1>t, <2>1 DEF IInv, Entered
  <2>3. /\ Slice(text, start.at, pos) /\ CharAt(text, start.at) \in Digits
        /\ \A at \in Chars(text, start.at, pos) : CharAt(text, at) \in Digits \cup {Dot}
        /\ Cardinality(Dots(text, start.at, pos)) = IF seenDot THEN 1 ELSE 0
    BY <2>1, <2>2, Holding DEF FullInv, Taken
  <2>4. \/ pos > Len(text)
        \/ CharAt(text, pos) \notin Digits \cup {Dot}
        \/ CharAt(text, pos) = Dot /\ Cardinality(Dots(text, start.at, pos)) = 1
    BY <1>m, <2>1, <2>3, Looking DEF AtEnd, AtDot
  <2>5. IsToken(text, start.at, pos, Keywords, "LIT_NUM")
    BY <1>t, <2>3, <2>4, NumberToken
  <2> QED BY <1>s, <2>1, <2>2, <2>5
<1>17. CASE ReadWord
  <2>1. /\ ~AtEnd /\ Take /\ reading = "word" /\ seenDot' = seenDot
        /\ WordChar(CharAt(text, pos)) \/ CharAt(text, pos) = Stray
    BY <1>17, Looking DEF ReadWord
  <2>2. CASE start.at = pos
    <3>1. Starter(CharAt(text, pos))
      BY <2>1, <2>2 DEF FullInv, Taken, Starter
    <3>2. Chars(text, start.at, pos) = {}
      BY <1>z, <2>2
    <3>3. Taken'
      BY <1>g, <2>1, <2>2, <3>1, <3>2 DEF Taken
    <3> QED BY <1>i, <1>t, <2>1, <3>3, TakeGood
  <2>3. CASE start.at # pos
    <3>1. /\ Starter(CharAt(text, start.at))
          /\ \A at \in Chars(text, start.at, pos) : WordChar(CharAt(text, at)) \/ CharAt(text, at) = Stray
      BY <2>1, <2>3 DEF FullInv, Taken
    <3>2. Taken'
      BY <1>g, <2>1, <2>3, <3>1 DEF Taken
    <3> QED BY <1>i, <1>t, <2>1, <3>2, TakeGood
  <2> QED BY <2>2, <2>3
<1>18. CASE ReturnWord
  <2>1. /\ Stay /\ reading = "word" /\ ~InWord /\ start.at < pos
        /\ Return(IF SubSeq(text, start.at, pos - 1) \in DOMAIN Keywords
                  THEN Keywords[SubSeq(text, start.at, pos - 1)] ELSE "IDENTIFIER")
    BY <1>18, <1>t DEF ReturnWord, Lexeme
  <2>2. /\ Slice(text, start.at, pos) /\ Starter(CharAt(text, start.at))
        /\ \A at \in Chars(text, start.at, pos) : WordChar(CharAt(text, at)) \/ CharAt(text, at) = Stray
    BY <1>t, <2>1, Holding DEF FullInv, Taken
  <2>3. pos > Len(text) \/ (~WordChar(CharAt(text, pos)) /\ CharAt(text, pos) # Stray)
    BY <2>1, Looking DEF AtEnd
  <2>4. IsToken(text, start.at, pos, Keywords, IF SubSeq(text, start.at, pos - 1) \in DOMAIN Keywords
                                               THEN Keywords[SubSeq(text, start.at, pos - 1)] ELSE "IDENTIFIER")
    BY <2>2, <2>3, WordToken
  <2> QED BY <1>s, <2>1, <2>4
<1>19. CASE RefuseWord
  <2>1. /\ GetChar /\ reading = "word" /\ ~InWord /\ pos = start.at /\ Return("INVALID") /\ text' = text
    BY <1>19 DEF RefuseWord, Return
  <2>2. ~AtEnd
    BY <1>i, <2>1 DEF IInv, Entered
  <2>3. /\ CharAt(text, pos) \in Int /\ ~WordChar(CharAt(text, pos))
        /\ CharAt(text, pos) \notin Space \cup Digits \cup OperatorCodes \cup SingleCodes \cup {Quote, Stray}
    BY <2>1, <2>2, Looking DEF FullInv, Taken
  <2>4. Slice(text, pos, pos') /\ Chars(text, pos, pos') = {pos}
    BY <2>1, <2>2, Getting
  <2>5. IsAlone(text, pos, pos') /\ CharAt(text, pos) \notin DOMAIN WithEquals
    BY <2>3, <2>4, Classes DEF IsAlone
  <2>6. IsToken(text, start.at, pos', Keywords, "INVALID")
    BY <2>1, <2>4, <2>5, AloneToken
  <2> QED BY <1>l, <2>1, <2>2, <2>6
<1>20. CASE ReturnOperator
  <2>1. PICK o \in Operators :
          /\ o.codepoint = Decoded(text, start.at).codepoint
          /\ IF Peek({Equals}) THEN GetChar /\ Return(o.paired) ELSE Stay /\ Return(o.alone)
    BY <1>20, <1>m DEF ReturnOperator
  <2>2. /\ reading = "operator" /\ start.at < pos /\ Slice(text, start.at, pos)
        /\ Chars(text, start.at, pos) = {start.at} /\ CharAt(text, start.at) \in OperatorCodes
    BY <1>20, <1>i, Holding DEF ReturnOperator, IInv, Entered, FullInv, Taken
  <2>3. /\ CharAt(text, start.at) = o.codepoint /\ o.codepoint \in {33, 60, 61, 62}
        /\ DOMAIN WithEquals = {33, 60, 61, 62}
    <3>1. CharAt(text, start.at) \in Int /\ start.at \in 1..Len(text)
      BY <2>2, SliceChars DEF Slice
    <3>2. CharAt(text, start.at) # Stray /\ CharAt(text, start.at) \in {33, 60, 61, 62}
      BY <1>m, <2>2, <3>1, Classes
    <3>3. DOMAIN WithEquals = {33, 60, 61, 62}
      BY DEF WithEquals
    <3> QED BY <1>t, <2>1, <3>1, <3>2, <3>3, DecodedIsChar
  <2>4. CASE Peek({Equals})
    <3>1. GetChar /\ Return(o.paired) /\ ~AtEnd /\ text' = text /\ CharAt(text, pos) = Equals
      BY <1>m, <2>1, <2>4, Looking DEF Return, Peek
    <3>2. /\ Slice(text, start.at, pos') /\ Chars(text, start.at, pos') = {start.at, pos}
      <4>1. Slice(text, pos, pos') /\ Chars(text, start.at, pos') = Chars(text, start.at, pos) \cup {pos}
        BY <1>t, <3>1, Getting
      <4> QED BY <1>t, <2>2, <4>1 DEF Slice
    <3>3. IsToken(text, start.at, pos', Keywords, WithEquals[o.codepoint])
      <4>1. start.at # pos /\ CharAt(text, start.at) \in DOMAIN WithEquals
        BY <1>t, <2>2, <2>3
      <4> QED BY <2>3, <3>1, <3>2, <4>1, PairedToken
    <3> QED BY <1>l, <2>2, <3>1, <3>3, SymbolKinds
  <2>5. CASE ~Peek({Equals})
    <3>1. Stay /\ Return(o.alone) /\ (pos > Len(text) \/ CharAt(text, pos) # Equals)
      BY <1>m, <2>1, <2>5, Looking DEF AtEnd
    <3>2. \/ /\ CharAt(text, start.at) \in SymbolCodes
             /\ o.alone = CHOOSE k \in DOMAIN Symbol : CharAt(text, start.at) \in Symbol[k]
          \/ IsAlone(text, start.at, pos) /\ o.alone = "INVALID"
      <4>1. CASE o.codepoint = 33
        <5>1. IsAlone(text, start.at, pos)
          BY <2>2, <2>3, <4>1, Classes DEF IsAlone, Space
        <5> QED BY <4>1, <5>1, SymbolKinds
      <4>2. CASE o.codepoint # 33
        BY <2>3, <4>2, Classes, SymbolKinds
      <4> QED BY <4>1, <4>2
    <3>3. IsToken(text, start.at, pos, Keywords, o.alone)
      BY <1>t, <2>2, <3>1, <3>2, AloneToken DEF Slice
    <3> QED BY <1>s, <2>2, <3>1, <3>3
  <2> QED BY <2>4, <2>5
<1>21. CASE UNCHANGED vars
  BY <1>21, <1>i DEF vars, FullInv, Taken, Good, Placed, Outside
<1> QED BY <1>1, <1>2, <1>3, <1>4, <1>5, <1>6, <1>7, <1>8, <1>9, <1>10, <1>11, <1>12, <1>13, <1>14,
           <1>15, <1>16, <1>17, <1>18, <1>19, <1>20, <1>21 DEF Next

(* Every text is cut into tokens as the token language says: each as long  *)
(* as it can be, of the kind its characters have, with the line and column *)
(* of its first one, and none left out.                                    *)
THEOREM TextsAreTokenised == Spec => []Tokenised
PROOF
<1>1. FullInv => Tokenised
  BY DEF FullInv, IInv, TokensInv, Tiled, Tokenised, Good, Placed
<1> QED BY <1>1, GoodInitially, GoodStep, PTL DEF Spec
=============================================================================
