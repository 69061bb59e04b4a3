\* Cuts at every byte, hang-ups at any point, a packet that is too long.
SPECIFICATION FairRecvSpec
CONSTANTS
    HeaderSize = 2
    Lengths = {0, 1, 2, 3}
    MaxLength = 2
    MaxPackets = 3
INVARIANTS RecvTypeOK ReadsAreSound
PROPERTIES ImplementsPacketStream SentIsReceived
