SPECIFICATION Spec
CONSTANTS
    b1 = b1
    b2 = b2
    e1 = e1
    e2 = e2
    NoExec = NoExec
    Backends = {b1, b2}
    Executors = {e1}
    Kinds = {"v2", "family"}
    Target = e1
    Policies = {"ok"}
    SkewedClocks = TRUE
    Mortal = {}
    ProducerMayCrash = FALSE
    MaxRestarts = 1
INVARIANTS
    FamilyTruth
    JobAgreesWithResult
PROPERTIES
    FirstWriterWins
    ImplementsAuthority
SYMMETRY BackendSymmetry
