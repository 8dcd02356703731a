--------------------------- MODULE MCMixinProxy ---------------------------
(***************************************************************************)
(* Three signed events over two users, two MTG assets and two symbols      *)
(* (1 = MEOS).  Amounts are scaled with MAX_AMOUNT = 2^62-1 as 3 (2 bits   *)
(* below the int64 width 16 = 2^4), so the fee, the token supply ceiling   *)
(* and the amount checks all meet their bounds.  Timestamps: 2 units a     *)
(* second, a window of 1 second; event 1 expires at second 2, the others   *)
(* at second 3.                                                            *)
(***************************************************************************)
EXTENDS MixinProxy

CONSTANTS u1, u2, a1, a2, proxy, pp, pq

MCUsers == {u1, u2}
MCAssetIds == {a1, a2}

\* 1: the first MEOS deposit of u1 (provisions its account);
\* 2: a MEOS deposit whose instruction travels as an origin_extra;
\* 3: a deposit of the other asset whose forwarded instruction fails.
MCUp ==
    1 :> [asset |-> a1, user |-> u1, amount |-> 2, ts |-> 0, kind |-> 0, long |-> FALSE, act |-> "ok"] @@
    2 :> [asset |-> a1, user |-> u1, amount |-> 2, ts |-> 2, kind |-> 1, long |-> TRUE, act |-> "ok"] @@
    3 :> [asset |-> a2, user |-> u1, amount |-> 1, ts |-> 2, kind |-> 0, long |-> FALSE, act |-> "fail"]

\* As MCUp, but event 3 carries MAX_AMOUNT itself: onevent rejects it
\* ("amount exceed max limit!"), onerrorevent does not check it.
MCUpMaxAmount == [MCUp EXCEPT ![3].amount = 3]
=============================================================================
