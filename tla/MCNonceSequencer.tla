------------------------- MODULE MCNonceSequencer -------------------------
(* Model of check_nonce for TLC: nonces 0..7, so that 0 (below the initial *)
(* mark), contiguous runs and gaps of more than one position all occur.    *)
EXTENDS NonceSequencer

MCNonces == 0..7
=============================================================================
