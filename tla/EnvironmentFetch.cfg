\* A fetch whose connection fails.
CHECK_DEADLOCK FALSE
CONSTANTS
    Names = {x}
    Res = res
    LastFlow = 2
    EnvJson <- MCEnvJson
    MaxValues = 2
    MaxDepth = 2
SPECIFICATION Spec
INVARIANT FetchReturnsDataOrThrows
