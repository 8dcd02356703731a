------------------------------ MODULE DappDemo ------------------------------
(***************************************************************************)
(* The dappdemo contract (dappdemo.cpp) composed with mtg.xin.  The MTG    *)
(* publisher delivers events of the dapp's process through onevent; the    *)
(* dapp accepts them strictly in nonce order (check_and_inc_nonce) and     *)
(* answers each with one txrequest to mtg.xin, numbered by its own counter *)
(* KEY_TX_REQUEST_INDEX.  The txrequest is an inline action: when mtg.xin  *)
(* rejects it (dappdemo not registered, or registered under another        *)
(* process) the whole onevent aborts, nonce increment included.            *)
(***************************************************************************)
EXTENDS Naturals, Sequences, SequencesExt, TLC

CONSTANTS
    Self,           \* the dappdemo account
    Other,          \* another contract using mtg.xin
    ProcessId,      \* PROCESS_ID, hard-coded in dappdemo.cpp
    ProcessIds,     \* process ids the mtg.xin admin may register
    Events,         \* events the publisher may deliver: [nonce, process, amount]
    MaxAmount,      \* MAX_AMOUNT = 2^62 - 1, scaled
    RequestNonces, MaxLog   \* the other contract's request nonces; log bound

VARIABLES
    counters,       \* table counters: key -> count, for the rows that exist
    processes, seq, txlog   \* mtg.xin

vars == <<counters, processes, seq, txlog>>

KeyNonce == 1               \* KEY_NONCE
KeyTxRequestIndex == 2      \* KEY_TX_REQUEST_INDEX

Mtg == INSTANCE MtgXin WITH Contracts <- {Self, Other}, Callers <- {Other},
                            Requests <- Events

\* Mutant: get_next_index returns the count but does not increment it.
MutGetNextIndex(ctrs, key) ==
    LET index == IF key \in DOMAIN ctrs THEN ctrs[key] ELSE 0
    IN  [index |-> index, counters |-> (key :> index) @@ ctrs]

\* get_next_index: the row's count (0 when there is no row), and the table
\* with the row incremented (created with count 1).
GetNextIndex(ctrs, key) ==
    LET index == IF key \in DOMAIN ctrs THEN ctrs[key] ELSE 0
    IN  [index |-> index, counters |-> (key :> index + 1) @@ ctrs]

\* check_and_inc_nonce: the check.  With a KEY_NONCE row the event must
\* carry exactly its count; without one, any nonce is accepted.
NonceAccepted(ctrs, old) ==
    KeyNonce \in DOMAIN ctrs => ctrs[KeyNonce] = old

\* check_and_inc_nonce: the row is modified or created to hold old + 1.
AfterCheckAndIncNonce(ctrs, old) == (KeyNonce :> old + 1) @@ ctrs

Init ==
    /\ counters = [k \in {} |-> 0]
    /\ Mtg!Init

\* Mutant: the amount bound is off by one.
MutOnEvent(ev) ==
    /\ ev.process = ProcessId
    /\ NonceAccepted(counters, ev.nonce)
    /\ ev.amount < MaxAmount - 1
    /\ LET r == GetNextIndex(AfterCheckAndIncNonce(counters, ev.nonce),
                             KeyTxRequestIndex)
       IN  /\ counters' = r.counters
           /\ Mtg!TxRequest(r.index, Self, ProcessId, ev)

\* onevent, authorised by MTG_PUBLISHER: the process check, the nonce
\* check, then for tx_request_count = 1 request: get_next_tx_request_nonce,
\* the amount check, and the inline txrequest carrying the event's fields.
OnEvent(ev) ==
    /\ ev.process = ProcessId
    /\ NonceAccepted(counters, ev.nonce)
    /\ ev.amount < MaxAmount
    /\ LET r == GetNextIndex(AfterCheckAndIncNonce(counters, ev.nonce),
                             KeyTxRequestIndex)
       IN  /\ counters' = r.counters
           /\ Mtg!TxRequest(r.index, Self, ProcessId, ev)

\* addprocess on mtg.xin, for the dapp or the other contract.
AddProcess(contract, process) ==
    /\ Mtg!AddProcess(contract, process)
    /\ UNCHANGED counters

\* txrequest sent to mtg.xin by the other contract.
OtherRequest ==
    /\ Mtg!ExternalRequest
    /\ UNCHANGED counters

Next ==
    \/ \E ev \in Events : OnEvent(ev)
    \/ \E c \in {Self, Other}, p \in ProcessIds : AddProcess(c, p)
    \/ OtherRequest

Spec == Init /\ [][Next]_vars

\* The publisher keeps delivering every event until the dapp accepts it.
FairSpec == Spec /\ \A ev \in Events : WF_vars(OnEvent(ev))

TypeOK ==
    /\ counters \in [DOMAIN counters -> Nat]
    /\ DOMAIN counters \subseteq {KeyNonce, KeyTxRequestIndex}
    /\ Mtg!TypeOK

(***************************************************************************)
(* Properties                                                              *)
(***************************************************************************)

\* The requests dappdemo sent, in the order mtg.xin logged them.
DappRequests == SelectSeq(txlog, LAMBDA e : e.contract = Self)

Registered == Self \in DOMAIN processes /\ processes[Self] = ProcessId

ExpectsNonce(n) == KeyNonce \in DOMAIN counters /\ counters[KeyNonce] = n

\* Whatever order the publisher delivers events in, and however requests of
\* other contracts interleave, the dapp's requests in the mtg.xin log carry
\* request nonces 0, 1, 2, ..., answer events of consecutive nonces, one
\* request per event, and the last answers the event just below the
\* dapp's KEY_NONCE count.
DappLogInOrder ==
    LET d == DappRequests
    IN  /\ \A i \in 1..Len(d) : d[i].nonce = i - 1
        /\ \A i \in 2..Len(d) : d[i].req.nonce = d[i - 1].req.nonce + 1
        /\ d /= <<>> => counters[KeyNonce] = Last(d).req.nonce + 1

\* Once the dapp is registered under its process and expects nonce n, it
\* eventually moves past n: the publisher redelivers the event of nonce n
\* until onevent commits, and nothing else can consume it.
NonceAdvances ==
    \A n \in {ev.nonce : ev \in Events} :
        (Registered /\ ExpectsNonce(n)) ~> ~ExpectsNonce(n)

=============================================================================
