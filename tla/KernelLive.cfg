SPECIFICATION FairSpec
CONSTANTS
    w = w
    r = r
    v = v
    u = u
    d = d
    NoOp = NoOp
    Ops = {w, d}
    Criteria = {c1}
    Vars = {}
    Calls = {a}
    Effect <- ControlEffect
    Parent <- Alone
    Blocks <- NoChild
    RetryOf <- Alone
    VerifyOf <- Alone
    ReconcileOf <- ControlReconcileOf
    Eligible <- AllProve
    OpVars <- NoInputs
    RequiredVars = {}
    DesiredState = {}
    AssignmentEffect = "apply"
    CommitLimit = 2
    CallLimit = 1
    Stops = {"pause", "hold", "failure", "budget", "blocker"}
    Transport = "direct"
PROPERTY ResumeSafe
PROPERTY CommitFailureTerminalizes
PROPERTY PauseDrains
CHECK_DEADLOCK FALSE
