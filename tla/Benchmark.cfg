SPECIFICATION Spec
CONSTANTS
    a = a
    b = b
    c = c
    x = x
    p = p
    q = q
    Corpus = {a, b, c}
    Extra = {x}
    Relevant <- TheRelevant
    QuerySets <- TheQuerySets
    KeywordOrder <- TheKeywordOrder
    SemanticOrder <- TheSemanticOrder
    Relevance <- TheRelevance
    Discount <- TheDiscount
    RrfK = 60
    HybridPool = 3
    RerankPool = 2
    Ks = {1, 2}
    Cutoff = 2
    Baseline <- TheBaseline
    MaxDrop = 5
    Runs = {r1, r2}
    Dirs = {d1, d2}
    None = None
    Effort = 4
SYMMETRY Symmetry
CHECK_DEADLOCK FALSE
INVARIANTS TypeOK QuietScoresAreExact BetterRankingScoresHigher PassedModesAreMeasured
PROPERTY EarlierReportsAreKept
