------------------------------- MODULE MtgXin -------------------------------
(***************************************************************************)
(* The mtg.xin contract (mtg.xin.cpp): the registry that binds an EOS      *)
(* contract to the MTG process it serves, and the issuer of the sequence   *)
(* numbers of outbound transfer requests.  A registered contract calls     *)
(* txrequest with its own request nonce; mtg.xin numbers the request with  *)
(* its counter KEY_TX_REQUEST_SEQ and emits it as an inline ontxlog        *)
(* action, which the MTG nodes read from the action trace (the logs table  *)
(* is declared but never written).                                         *)
(*                                                                         *)
(* TxRequest is also the operator callers conjoin into their own actions:  *)
(* mixinproxy's refund and dappdemo's onevent send it inline, and a check  *)
(* that fails in it aborts the caller's whole transaction.                 *)
(***************************************************************************)
EXTENDS Naturals, Sequences, Functions, TLC

CONSTANTS
    Contracts,      \* existing EOS accounts (is_account)
    ProcessIds,     \* MTG process ids the admin may register
    Callers,        \* contracts whose txrequest calls are not modelled by
                    \* another module: they may send any request
    RequestNonces,  \* request nonces those callers may pass
    Requests,       \* payloads (asset, members, threshold, amount, extra)
    MaxLog          \* bound: the longest request log modelled

VARIABLES
    processes,      \* table processes: contract -> process
    seq,            \* counter KEY_TX_REQUEST_SEQ (no row: 0)
    txlog           \* history of ontxlog actions, in the order sent

mtgVars == <<processes, seq, txlog>>

\* Mutant: a new row is created with count 0, so 0 is handed out twice.
MutGetNextIndex(count) == [index |-> count, count |-> IF count = 0 THEN 0 ELSE count + 1]

\* get_next_index: the counter's value, and the row's value after it.  A
\* missing row yields 0 and is created with count 1, as a row holding 0 would.
GetNextIndex(count) == [index |-> count, count |-> count + 1]

Init ==
    /\ processes = [c \in {} |-> 0]
    /\ seq = 0
    /\ txlog = <<>>

\* addprocess: require_auth(self); the contract account exists and is not
\* registered yet.  A registration is never changed or removed.
AddProcess(contract, process) ==
    /\ contract \in Contracts
    /\ contract \notin DOMAIN processes
    /\ processes' = processes @@ (contract :> process)
    /\ UNCHANGED <<seq, txlog>>

\* txrequest, authorised by contract: it must be registered under process;
\* get_next_seq numbers the request, and ontxlog carries it out.
TxRequest(nonce, contract, process, req) ==
    /\ contract \in DOMAIN processes
    /\ processes[contract] = process
    /\ seq' = GetNextIndex(seq).count
    /\ txlog' = Append(txlog, [id |-> GetNextIndex(seq).index, nonce |-> nonce,
                               contract |-> contract, process |-> process,
                               req |-> req])
    /\ UNCHANGED processes

\* Requests of the callers no other module models.
ExternalRequest ==
    \E c \in Callers, p \in ProcessIds, n \in RequestNonces, r \in Requests :
        /\ Len(txlog) < MaxLog
        /\ TxRequest(n, c, p, r)

Next ==
    \/ \E c \in Contracts, p \in ProcessIds : AddProcess(c, p)
    \/ ExternalRequest

Spec == Init /\ [][Next]_mtgVars

LogEntry == [id: Nat, nonce: Nat, contract: Contracts, process: ProcessIds,
             req: Requests]

TypeOK ==
    /\ processes \in [DOMAIN processes -> ProcessIds]
    /\ DOMAIN processes \subseteq Contracts
    /\ seq = Len(txlog)
    /\ txlog \in Seq(LogEntry)

=============================================================================
