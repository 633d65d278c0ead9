------------------------------- MODULE MCLexer -------------------------------
(* Every text over a few alphabets: whole and broken UTF-8, numbers and    *)
(* strings, operators, and the keywords of "and" and "or" inside and       *)
(* beside other words.                                                     *)
EXTENDS LexerProperties, SequencesExt

UpTo(n, alphabet) == UNION {[1..k -> alphabet] : k \in 0..n}

(* a, space, a no-break space C2 A0, an Arabic digit D9 A1, E2 82 AC,      *)
(* F0 ..., a byte that is never in UTF-8.                                  *)
MCBroken == UpTo(4, {97, 32, 194, 217, 160, 161, 226, 240, 255})
MCDigits == UpTo(5, {97, 49, 46, 217, 161})
MCStrings == UpTo(4, {34, 97, 10, 13, 255, 32})
MCOperators == UpTo(4, {33, 60, 61, 62, 40, 63, 97, 10})
(* An overlong equals sign is C0 BD.                                       *)
MCOverlong == UpTo(5, {61, 60, 192, 189})
(* The keywords are D9 88 and D8 A3 D9 88.                                 *)
MCWords == UpTo(6, {217, 136, 216, 163}) \cup {w \o <<32>> \o v : w, v \in UpTo(2, {217, 136, 216, 163})}
MCTexts == MCBroken \cup MCDigits \cup MCStrings \cup MCOperators \cup MCOverlong \cup MCWords

MCKeywords ==
  [word \in {<<217, 136>>, <<216, 163, 217, 136>>} |-> IF Len(word) = 2 THEN "KW_AND" ELSE "KW_OR"]

(* Texts for the check against GRAMMAR.md: a, space and C2 A0.            *)
MCIdentifierTexts ==
  {FlattenSeq(characters) : characters \in UpTo(4, {<<97>>, <<32>>, <<194, 160>>})}
=============================================================================
