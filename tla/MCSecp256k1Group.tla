------------------------- MODULE MCSecp256k1Group -------------------------
(***************************************************************************)
(* The curve y^2 = x^3 + 7 over GF(43): 30 affine points and infinity, a   *)
(* group of prime order 31 like secp256k1's.  43 = 3 mod 4 and 1 mod 3,    *)
(* -7 is not a cube mod 43, and beta = 6 is a cube root of unity, so every *)
(* branch of the group code, the degenerate one of gej_add_ge included,    *)
(* occurs.  3 generates the nonzero field, so rescaling by 3 reaches       *)
(* every z.                                                                *)
(***************************************************************************)
EXTENDS Secp256k1Group

MCGen == [x |-> 2, y |-> 12, inf |-> FALSE]
=============================================================================
