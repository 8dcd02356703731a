CONSTANT Nonces <- MCNonces
SPECIFICATION FairSpec
INVARIANT TypeOK
PROPERTY RefinesNonceAbstract MarkConverges
CHECK_DEADLOCK FALSE
