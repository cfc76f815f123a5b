SPECIFICATION Spec
CONSTANTS
    Nothing = Nothing
    NoFile = NoFile
    short = short
    long = long
    Searches = {s1, s2}
    Queries = {x, y}
    Columns = {keyword, semantic}
    Files <- TwoFiles
    ChunkCount <- TwoCounts
    Polls = 2
SYMMETRY Symmetry
INVARIANTS TypeOK ColumnsShareQuery QuietPageIsComplete ShownDoneIsReal NothingLeftHanging
CHECK_DEADLOCK FALSE
