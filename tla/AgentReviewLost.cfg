CONSTANTS
    None = None
    Unreadable = Unreadable
    n1 = n1
    acme = acme
    bob = bob
    TruncatedNames = {}
    PartyKey <- KeyOf
    Documents <- MCDocuments
    Replies <- MCReplies
    Categories <- MCCategories
    KeywordsIn <- KeywordsOfAll
    CurrencyCodes = {"EUR", "USD"}
    Fits <- FitsIn
    Slugs = {"professional_services"}
    Likeness <- LikenessOf
    Anchoring <- AnchoringOf
    Ledgers <- MCLedgers
    Statements <- MCStatements
    MaxImports = 0
    Budgets = {0}
    Llms = {"ollama", "mock_llm"}
    Today = 40
SPECIFICATION BankSpec
INVARIANT ReviewDecisionKept
CHECK_DEADLOCK FALSE
