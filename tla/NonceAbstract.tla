--------------------------- MODULE NonceAbstract ---------------------------
(***************************************************************************)
(* What the nonce sequencer of the mixinproxy contract promises: every     *)
(* sequence position from the first one on is admitted at most once, in   *)
(* any order, and a position below the first one is never admitted.        *)
(***************************************************************************)
EXTENDS Naturals

CONSTANTS Nonces,       \* the nonces the publisher may sign
          FirstNonce    \* the lowest admissible nonce

VARIABLE admitted       \* the set of nonces admitted so far

Init == admitted = {}

Admit(n) ==
    /\ n >= FirstNonce
    /\ n \notin admitted
    /\ admitted' = admitted \cup {n}

Next == \E n \in Nonces : Admit(n)

Spec == Init /\ [][Next]_admitted
=============================================================================
