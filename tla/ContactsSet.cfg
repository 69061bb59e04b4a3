\* Four contacts: the fewest of which one is left over.
SPECIFICATION Spec
CONSTANTS
    UINs = {u1, u2, u3, u4}
    Rosters <- FullRoster
    MaxInbox = 1
    MaxNotified = 0
PROPERTY SetReplaces
