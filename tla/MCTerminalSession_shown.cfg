CONSTANTS
    Local = {create}
    Risky = {delete}
    Plain = {ask}
    Planning = {plan}
    Tools = {tools}
    create = create
    delete = delete
    ask = ask
    plan = plan
    tools = tools
    Paths = {p, q}
    p = p
    q = q
    Modes = {"default", "accept_edits"}
    Workers = {w1, w2}
    w1 = w1
    w2 = w2
    None = None
    MaxKeys = 3
    MaxDiffs = 3
SYMMETRY Places
SPECIFICATION Spec
INVARIANTS ApprovedAsShown
CHECK_DEADLOCK FALSE
