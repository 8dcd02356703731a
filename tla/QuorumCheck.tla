---------------------------- MODULE QuorumCheck ----------------------------
(***************************************************************************)
(* mixinproxy::verify_signatures (mixinproxy.cpp).  A signature is         *)
(* represented by the public key recover_key() yields for it on the hash   *)
(* of the signed bytes: two signatures on which it yields the same key     *)
(* (the same bytes twice, or a malleated copy) are indistinguishable to    *)
(* the loop.  The roster is the set of keys of the signers table of        *)
(* MTG_CONTRACT.  The relay collects the signatures of a submission one at *)
(* a time, so every list of at most MaxSigs signatures over every roster   *)
(* is reached.                                                             *)
(***************************************************************************)
EXTENDS Naturals, FiniteSets, Sequences

CONSTANTS Keys,         \* public keys: roster members and others
          MaxSigs       \* the longest signature list the relay submits

VARIABLES roster,       \* keys of the signers table
          sigs          \* the signatures vector of the event

vars == <<roster, sigs>>

\* Mutant: the threshold without the + 1.
MutThreshold(keys) == (Cardinality(keys) * 2) \div 3

\* int threshold = public_keys.size() * 2 / 3 + 1;
Threshold(keys) == (Cardinality(keys) * 2) \div 3 + 1

\* The loop over the signatures: count each one whose recovered key is in
\* the roster, and return true as soon as the count reaches the threshold.
RECURSIVE CountLoop(_, _, _, _)
CountLoop(keys, s, threshold, valid) ==
    IF s = <<>> THEN FALSE
    ELSE IF Head(s) \in keys
         THEN valid + 1 >= threshold \/ CountLoop(keys, Tail(s), threshold, valid + 1)
         ELSE CountLoop(keys, Tail(s), threshold, valid)

VerifySignatures(keys, s) == CountLoop(keys, s, Threshold(keys), 0)

(* Reference, spec section 4.1: authentication succeeds iff the number of *)
(* distinct roster keys with a valid signature is at least floor(2N/3)+1. *)
SignersOf(keys, s) == {k \in keys : \E i \in 1..Len(s) : s[i] = k}

QuorumReached(keys, s) == Cardinality(SignersOf(keys, s)) >= (2 * Cardinality(keys)) \div 3 + 1

NoRepeatedSigner(s) == \A i, j \in 1..Len(s) : i # j => s[i] # s[j]

Init ==
    /\ roster \in SUBSET Keys
    /\ sigs = <<>>

\* The relay appends one more signature to the submission.
AddSignature(k) ==
    /\ Len(sigs) < MaxSigs
    /\ sigs' = Append(sigs, k)
    /\ UNCHANGED roster

Next == \E k \in Keys : AddSignature(k)

Spec == Init /\ [][Next]_vars

(***************************************************************************)
(* Properties                                                              *)
(***************************************************************************)

\* When no signer's signature is repeated, verify_signatures accepts a
\* submission exactly when a quorum of distinct roster members signed it.
VerifyExactOnDistinct ==
    NoRepeatedSigner(sigs) => (VerifySignatures(roster, sigs) <=> QuorumReached(roster, sigs))

\* verify_signatures accepts a submission only if a quorum of distinct
\* roster members signed it (spec 4.1: "counts distinct valid signatures").
VerifyImpliesQuorum ==
    VerifySignatures(roster, sigs) => QuorumReached(roster, sigs)
=============================================================================
