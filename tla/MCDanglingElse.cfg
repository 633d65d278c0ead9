\* Whether every accepted text has one derivation only.
CONSTANTS
  GrammarRules <- MCGrammarRules
  ActionTable <- MCActionTable
  GotoTable <- MCGotoTable
  ItemSets <- MCItemSets
  Start <- MCStart
  Vocabularies <- MCNested
SPECIFICATION FairSpec
INVARIANT OneReading
CHECK_DEADLOCK FALSE
