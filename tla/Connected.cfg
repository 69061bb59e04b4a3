\* Four list transfers, three images, three requests of other kinds, two of any.
SPECIFICATION FairSpec
CONSTANTS
    MaxUin = 2
    Images <- TwoImages
    ListLengths = {2, 3}
    ListChunk = 2
    NotifyPart = 1
    FirstPiece = 1
    NextPiece = 2
    SeqSpace = 16
    Seed = 3
    Steps = {1, 2}
    Programs <- SomePrograms
    MaxParts = 2
    MaxInbox = 3
CHECK_DEADLOCK FALSE
INVARIANTS TypeOK RequestsKnown RepliesAreWhole
PROPERTIES AnswersArrive
