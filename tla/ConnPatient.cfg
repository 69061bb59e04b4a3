\* The user waits until the program has settled.
SPECIFICATION Spec
CONSTANTS
    Handlers = {h1, h2, h3}
    Sessions = {s1, s2, s3}
    Fds = {f1, f2}
    None = None
    Patient = TRUE
    MaxMail = 2
SYMMETRY Symmetry
INVARIANTS OneWatchedSession
PROPERTIES OnlineIsSound ImplementsLifecycle
