SPECIFICATION FairSpec
CONSTANTS
    FileSizes = {0, 4}
    Resumes = {0, 1, 4, 5}
    MaxChunk = 3
    BufSize = 2
    Frames = {1, 3}
    MinFrame = 2
    MaxFrame = 3
    Width = 16
    Ports = 8
    DefaultPort = 4
    Asked <- SomePorts
    Window = 3
    MaxFaults = 2
    MaxFrames = 2
CHECK_DEADLOCK FALSE
INVARIANTS TypeOK ReceivedIsSent EndsAgree
PROPERTIES TransfersEnd
