SPECIFICATION Spec
CONSTANTS
    w = w
    r = r
    v = v
    u = u
    d = d
    NoOp = NoOp
    Ops = {w, r, d, v, u}
    Criteria = {c1}
    Vars = {}
    Calls = {}
    Effect <- RetryEffect
    Parent <- Alone
    Blocks <- NoChild
    RetryOf <- RetryRetryOf
    VerifyOf <- RetryVerifyOf
    ReconcileOf <- Alone
    Eligible <- AllProve
    OpVars <- NoInputs
    RequiredVars = {}
    DesiredState = {c1}
    AssignmentEffect = "apply"
    CommitLimit = 1
    CallLimit = 1
    Stops = {}
    Transport = "direct"
INVARIANT EffectTruth
INVARIANT RetryAtMostOnce
INVARIANT SuccessIsFinal
CHECK_DEADLOCK FALSE
