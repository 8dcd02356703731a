CONSTANTS u1 = u1  u2 = u2  a1 = a1  a2 = a2  proxy = proxy  pp = pp  pq = pq
CONSTANTS
    Nonces = {1, 2, 3}
    Up <- MCUpMaxAmount
    Users <- MCUsers
    AssetIds <- MCAssetIds
    Symbols = {1, 2}
    MEOS = 1
    Fees = {0}
    MaxAmount = 3
    I64Mod = 16
    U128Mod = 256
    TsPerSecond = 2
    ExpirationWindow = 1
    MaxTime = 3
    MaxAccountId = 3
    Proxy <- proxy
    UpProcess <- pp
    ProcessIds = {pp, pq}
SPECIFICATION FairSpec

PROPERTY DeferredDrain
