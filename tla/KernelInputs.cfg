SPECIFICATION Spec
CONSTANTS
    w = w
    r = r
    v = v
    u = u
    d = d
    NoOp = NoOp
    Ops = {w, v, d}
    Criteria = {c1}
    Vars = {x, y}
    Calls = {}
    Effect <- InputEffect
    Parent <- InputParent
    Blocks <- InputBlocks
    RetryOf <- Alone
    VerifyOf <- InputVerifyOf
    ReconcileOf <- Alone
    Eligible <- AllProve
    OpVars <- WriteVars
    RequiredVars = {x}
    DesiredState = {c1}
    AssignmentEffect = "apply"
    CommitLimit = 2
    CallLimit = 1
    Stops = {}
    Transport = "courier"
INVARIANT KernelTypeOK
INVARIANT EvidenceCurrent
PROPERTY FirstResultWins
CHECK_DEADLOCK FALSE
