CONSTANTS k1 = k1  k2 = k2  k3 = k3  k4 = k4  kx = kx
CONSTANT Keys <- MCKeys
CONSTANT MaxSigs = 4
CONSTANT MaxId = 1000
SPECIFICATION HelpersSpec
INVARIANT VerifyExactOnDistinct EncodeIsBase31 OperationRoundTrip ActionRoundTrip
CHECK_DEADLOCK FALSE
