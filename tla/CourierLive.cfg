SPECIFICATION FairSpec
CONSTANTS
    b1 = b1
    b2 = b2
    e1 = e1
    e2 = e2
    NoExec = NoExec
    Backends = {b1}
    Executors = {e1}
    Kinds = {"general", "lab", "legacy", "v2", "family"}
    Target = e1
    Policies = {"ok"}
    SkewedClocks = FALSE
    Mortal = {}
    ProducerMayCrash = FALSE
    MaxRestarts = 1
INVARIANT KnownFailureNeverRan
PROPERTIES
    TerminalEventually
    OutboxDrains
