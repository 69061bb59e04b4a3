\* The user acts at any time; liveness, hence no symmetry.
SPECIFICATION FairSpec
CONSTANTS
    Handlers = {h1, h2}
    Sessions = {s1}
    Fds = {f1}
    None = None
    Patient = FALSE
    MaxMail = 1
INVARIANTS TypeOK HandlersKept
PROPERTIES LoopersReturn
