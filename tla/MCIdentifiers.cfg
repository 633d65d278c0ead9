\* Identifiers against GRAMMAR.md.
CONSTANTS
  Texts <- MCIdentifierTexts
  Keywords <- MCKeywords
SPECIFICATION FairSpec
INVARIANT IdentifiersAreWords
CHECK_DEADLOCK FALSE
