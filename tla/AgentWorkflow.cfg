CONSTANTS
    None = None
    Unreadable = Unreadable
    n1 = n1
    acme = acme
    bob = bob
    TruncatedNames = {}
    PartyKey <- KeyOf
    Documents <- MCDocuments
    Replies <- MCReplies
    Categories <- MCCategories
    KeywordsIn <- KeywordsOfAll
    CurrencyCodes = {"EUR", "USD"}
    Fits <- FitsIn
    Slugs = {"professional_services"}
    Likeness <- LikenessOf
    Anchoring <- AnchoringOf
    Ledgers <- MCLedgers
    Statements <- MCStatements
    MaxImports = 2
    Budgets = {0, 2}
    Llms = {"ollama", "mock_llm"}
    Today = 40
SPECIFICATION BankFairSpec
INVARIANTS AgentTypeOK ValidatedBeforeBusiness ClassificationSupported RetryBudget FinalOutcome EveryDocumentReviewed MatchesHold
PROPERTIES CorrectionTargeted ProgressNeverFalls PipelineSpec
CHECK_DEADLOCK FALSE
