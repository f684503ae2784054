SPECIFICATION Spec
CONSTANTS
    b1 = b1
    b2 = b2
    e1 = e1
    e2 = e2
    NoExec = NoExec
    Backends = {b1}
    Executors = {e1}
    Kinds = {"general", "lab", "legacy", "v2", "family"}
    Target = e1
    Policies = {"ok", "route_withdrawn", "profile_revoked"}
    SkewedClocks = FALSE
    Mortal = {e1}
    ProducerMayCrash = TRUE
    MaxRestarts = 1
INVARIANTS
    TypeOK
    AtMostOnce
    RetryAdviceSafe
CHECK_DEADLOCK FALSE
