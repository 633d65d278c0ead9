\* The lexer on every short text over six alphabets.
CONSTANTS
  Texts <- MCTexts
  Keywords <- MCKeywords
SPECIFICATION FairSpec
INVARIANTS
  NeverSplits
  Tokenised
PROPERTY Ends
CHECK_DEADLOCK FALSE
