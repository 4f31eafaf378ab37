SPECIFICATION Spec
CONSTANTS
  ValidTerms <- MCValidTerms
  ManualLinks <- MCManualLinks
  IdOrder <- MCIdOrder
  Chunks <- MCChunks
  Scopes <- MCScopes
  MaxRuns = 2
  MaxFailures = 1
  Texts <- MCTexts
  Lexeme <- MCLexeme
  CandidateK = 3
  PoolK = 4
  EvalK = 3
  Threads <- MCThreads
  Findings <- MCFindings
  RuleText <- MCRuleText
  Replies <- MCReplies
  Requests <- MCRequests
INVARIANTS
  HitsAreAccountedFor
  ExceptionTravelsWithItsClause
  CorrectionNeverCosts
  FilledOnce
PROPERTIES
  WorkIsKept
CHECK_DEADLOCK FALSE
