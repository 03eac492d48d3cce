SPECIFICATION Spec
CONSTANTS
    Width = 5
    Configs <- MCConfigs
    StatusCodes = {0, 200, 299, 300, 400, 408, 429, 499, 500, 599, 600}
    RetryAfters = {0, 4, 31}
INVARIANT
    JitterIsSymmetric
CHECK_DEADLOCK FALSE
