\* Two profiles; starting, acts of the user, news of a session, restarts and ends of a
\* run count.
SPECIFICATION FairSpec
CONSTANTS
    Profiles = {p1, p2}
    Default = p2
    NoName = p0
    MaxActs = 3
CHECK_DEADLOCK FALSE
INVARIANTS TypeOK PatientIsServed ProfilesSound DeskbarAgrees
PROPERTIES ProgramEnds
