SPECIFICATION TextSpec
CONSTANTS
    Units = 5
    MaxTokens = 4
    OverlapTokens = 2
    Tokenizers <- SmallTokenizers
    Sizes = {0, 1, 4}
    Seams = {0, 1}
    Length = 4
    PieceTokens = 4
    Blank = {2}
    Counts = {0, 4, 5}
INVARIANTS ChunksFit OverlapFits ChunksAdvance NothingIsLost FactsSurvive PiecesFit TextIsKept
PROPERTY ChunkTextEnds
CHECK_DEADLOCK FALSE
