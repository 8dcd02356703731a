-------------------------- MODULE NonceSequencer --------------------------
(***************************************************************************)
(* mixinproxy::check_nonce (mixinproxy.cpp): the low-water mark KEY_NONCE  *)
(* of the counters table and the out-of-order buffer submittedevs.  The    *)
(* operators below are the state change of one successful check_nonce     *)
(* call; MixinProxy uses them inside onevent/onerrorevent.  Submit is the  *)
(* sequencer on its own: a relay submitting signed nonces in any order,    *)
(* duplicates included.  A call that fails a check() aborts the whole      *)
(* transaction and changes nothing, so it is not a step.                   *)
(***************************************************************************)
EXTENDS Naturals, FiniteSets

CONSTANT Nonces         \* the nonces the publisher may sign (a finite set)

VARIABLES nonce,        \* count of row KEY_NONCE of the counters table
          submitted     \* nonces of the submittedevs table

vars == <<nonce, submitted>>

\* get_nonce(): a missing row reads (and is created) as 1.
InitialNonce == 1

\* Mutant: the exclusive comparison event_nonce > nonce.
MutNonceAdmissible(mark, subm, n) == n > mark /\ n \notin subm

\* check(event_nonce >= nonce) and check(it == db.end()).
NonceAdmissible(mark, subm, n) == n >= mark /\ n \notin subm

\* The first loop: while a marker sits at the mark, erase it and inc_nonce().
RECURSIVE Advance(_, _)
Advance(mark, subm) ==
    IF mark \in subm THEN Advance(mark + 1, subm \ {mark}) ELSE <<mark, subm>>

\* The second loop: erase markers from the lowest one up while they are
\* not above the mark.
\* Mutant: the second loop stops one marker too late.
MutPrune(mark, subm) == {m \in subm : m > mark + 1}

Prune(mark, subm) == {m \in subm : m > mark}

\* Mutant: check_nonce records the marker and never advances the mark.
MutAfterCheckNonce(mark, subm, n) == [nonce |-> mark, submitted |-> subm \cup {n}]

\* The counters and markers after a successful check_nonce(n).
AfterCheckNonce(mark, subm, n) ==
    LET r == Advance(mark, subm \cup {n})
    IN  [nonce |-> r[1], submitted |-> Prune(r[1], r[2])]

\* The mark is a counter from 1 and every submittedevs row lies above it.
TypeOK ==
    /\ nonce \in Nat /\ nonce >= InitialNonce
    /\ submitted \subseteq {i \in Nonces : i > nonce}

Init ==
    /\ nonce = InitialNonce
    /\ submitted = {}

\* One call of check_nonce(n) that does not abort.
Submit(n) ==
    /\ NonceAdmissible(nonce, submitted, n)
    /\ LET s == AfterCheckNonce(nonce, submitted, n)
       IN  /\ nonce' = s.nonce
           /\ submitted' = s.submitted

Next == \E n \in Nonces : Submit(n)

Spec == Init /\ [][Next]_vars

\* The relay keeps resubmitting every event until it is admitted.
FairSpec == Spec /\ \A n \in Nonces : WF_vars(Submit(n))

(***************************************************************************)
(* Properties                                                              *)
(***************************************************************************)

\* The nonces admitted so far: every position between the first one and the
\* mark, and every marker above the mark.
Admitted == {i \in Nonces : InitialNonce <= i /\ i < nonce} \cup submitted

Abstract == INSTANCE NonceAbstract
                WITH admitted <- Admitted, FirstNonce <- InitialNonce

\* check_nonce admits each sequence position at most once, whatever order
\* the relay submits them in and however often it resubmits them: the
\* sequencer implements NonceAbstract under the mapping Admitted.
RefinesNonceAbstract == Abstract!Spec

\* Once the relay has submitted every signed nonce from the first one on,
\* the mark of check_nonce has passed all of them, whatever the order of
\* submission (spec section 8, first property).
MarkConverges ==
    <>[](nonce = InitialNonce + Cardinality({i \in Nonces : i >= InitialNonce}))
=============================================================================
