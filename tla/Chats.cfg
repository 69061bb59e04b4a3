\* Two contacts and as many addresses, so that addresses are used again.
SPECIFICATION FairSpec
CONSTANTS
    Contacts = {c1, c2}
    Addresses = {a1, a2}
    MaxActs = 4
CHECK_DEADLOCK FALSE
INVARIANTS TypeOK WindowsSound ChatInOrder QuitSound
PROPERTIES LoopersGoOn
