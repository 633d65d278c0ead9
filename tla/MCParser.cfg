\* The generated tables and the parser on every text of six vocabularies.
CONSTANTS
  GrammarRules <- MCGrammarRules
  ActionTable <- MCActionTable
  GotoTable <- MCGotoTable
  ItemSets <- MCItemSets
  Start <- MCStart
  Vocabularies <- MCVocabularies
SPECIFICATION FairSpec
INVARIANTS
  TakesWhatItHolds
  AcceptsOnlySentences
  RefusesNoSentence
  SourceOrder
  ElseBindsNearest
PROPERTIES
  FailsOnlyAtACell
  Answers
CHECK_DEADLOCK FALSE
