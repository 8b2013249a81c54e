\* Two flows, the first without an env.json, subflows and blocks two deep.
\* The run stops when the plan is done or the values are used up.
CHECK_DEADLOCK FALSE
CONSTANTS
    Names = {x, y}
    Res = res
    LastFlow = 2
    EnvJson <- MCEnvJson
    MaxValues = 3
    MaxDepth = 3
SPECIFICATION Spec
SYMMETRY Symmetry
INVARIANTS TypeOK ReadsLatest
