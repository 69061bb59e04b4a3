\* Replies shorter and longer than they say, in parts that cut header and body.
SPECIFICATION FairSpec
CONSTANTS
    QuerySize = 2
    HeaderSize = 2
    BodySizes = {0, 1, 3}
    Lengths = {0, 1, 3, 4}
    BufSize = 3
CHECK_DEADLOCK FALSE
INVARIANTS TypeOK ResultSound SocketsAccounted
PROPERTIES RequestEnds
