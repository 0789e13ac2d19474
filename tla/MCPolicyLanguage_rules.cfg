SPECIFICATION Spec
CONSTANTS
  Words <- TheWords
  MaxInt = 20
  Stamps <- TheStamps
  CharOrder <- TheOrder
  MaxDepth = 3
  MaxObligations = 2
  MaxMessage = 1
  ObligationTypes <- TheObligations
  Inherits <- TheInherits
  RuleSets <- TheRuleSets
  Requests <- TheRequests
CHECK_DEADLOCK FALSE
INVARIANTS CompilesTheGrammar FoldingPreservesMeaning MissingNeverSatisfies SchemaSuffices EqualTextsAreEqual
