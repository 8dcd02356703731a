----------------------------- MODULE MCDappDemo -----------------------------
EXTENDS DappDemo

CONSTANTS self, other, p1, p2

\* Three events of the dapp's process, and one of another process that the
\* publisher delivers by mistake with a nonce the dapp also expects.
MCEvents ==
    { [nonce |-> 1, process |-> p1, amount |-> 1],
      [nonce |-> 2, process |-> p1, amount |-> 2],
      [nonce |-> 3, process |-> p1, amount |-> 1],
      [nonce |-> 2, process |-> p2, amount |-> 1] }

\* The same, with the event of nonce 2 carrying the largest amount an MTG
\* event may have (2^62 - 1, scaled to MaxAmount = 3).
MCEventsMaxAmount ==
    { [nonce |-> 1, process |-> p1, amount |-> 1],
      [nonce |-> 2, process |-> p1, amount |-> 3],
      [nonce |-> 3, process |-> p1, amount |-> 1] }
=============================================================================
