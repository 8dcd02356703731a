CONSTANTS
    P = 43
    Beta = 6
    Gen <- MCGen
    Order = 31
    ZValues = {1, 3}
    Scales = {3}
SPECIFICATION Spec
INVARIANT WalkSound ConversionsAgree AddGeSum PointCodecs
