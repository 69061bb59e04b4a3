\* Two contacts or none, two packets on their way, any crash.
SPECIFICATION FairSpec
CONSTANTS
    UINs = {u1, u2}
    Rosters <- AnyRoster
    MaxInbox = 2
    MaxNotified = 2
INVARIANTS TypeOK ListedIsWatched HeardIsShown
PROPERTY ImportEnds
