SPECIFICATION Spec
CONSTANTS
    a = a
    b = b
    c = c
    q = q
    Query = q
    Docs = {a, b, c}
    Loaded = {a}
    Early = {c}
    Requests = {r1, r2}
    MaxResets = 1
    None = None
    KeywordOrder <- ThreeKeyword
    SemanticOrder <- ThreeSemantic
    Relevance <- ThreeRelevance
    RrfK = 60
    HybridPool = 3
    RerankPool = 2
    K = 1
SYMMETRY Symmetry
INVARIANTS TypeOK CurrentEntryIsExact AgreementWins SingleSignalSurvives
PROPERTY AnswersAreFresh
