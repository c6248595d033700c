\* Filters typed, combined and asked, while rows arrive.
SPECIFICATION Spec
CONSTANTS
  Letters <- MCLetters
  Digits <- MCDigits
  Hot <- MCHot
  Dict <- MCDict
  Ordinals <- MCOrdinals
  Alphabet <- MCAlphabet
  Vocabularies <- MCVocabularies
  Chips <- MCChips
  Rows <- MCRows
  Rings <- MCRings
  Means <- MCMeans
  Samples <- MCSamples
  QueryKinds = {"history", "recent", "search", "export"}
  Cap = 4
  Limit = 1
  MaxRows = 5
INVARIANTS ReadsAsDocumented GroupsCompose QuotedIsExact PlanMatchesFilter GlobsMatch AnswersExact PagingReachesAll
\* A client that does not ask again and a full store may stop.
CHECK_DEADLOCK FALSE
