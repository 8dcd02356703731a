------------------------ MODULE MCMixinProxyHelpers ------------------------
(* The pure computations of mixinproxy, checked together.                  *)
(*                                                                         *)
(* verify_signatures: keys k1..k4 and one key outside every roster, so     *)
(* rosters of 0 to 4 members give the thresholds 1, 2 and 3, and lists of  *)
(* up to 4 signatures are long enough to repeat a signer and still reach   *)
(* them.                                                                   *)
(*                                                                         *)
(* get_next_available_account: every cache id from the one initialize      *)
(* seeds up to MaxId, which gives names of one, two and three base-31      *)
(* digits.                                                                 *)
(*                                                                         *)
(* decode_operation and parse_action: purposes and names whose two bytes   *)
(* differ, processes that fill more than one byte, and vectors of 0 to 2   *)
(* bytes including 0 and 255, so byte order, every length prefix and       *)
(* every truncation point are exercised.                                   *)
EXTENDS QuorumCheck, AccountName, OperationCodec

CONSTANTS k1, k2, k3, k4, kx

CONSTANT MaxId          \* bound: the largest account cache id checked

MCKeys == {k1, k2, k3, k4, kx}

Payloads == {<<>>, <<0>>, <<255>>, <<1, 255>>}

Operations == [purpose: {0, 1, 258}, process: {0, 65537},
               platform: Payloads, address: Payloads, extra: Payloads]

Actions == [account: {0, 1, 513}, name: {0, 258}, data: Payloads]

\* The inputs of the three computations.  A behaviour checks one of them
\* (part): the relay's signature collection of QuorumCheck, the account
\* cache id advancing one provisioning at a time (record.id += 1), or
\* one encoded operation or instruction, chosen initially.
VARIABLES part, id, op, act

helperVars == <<part, roster, sigs, id, op, act>>

NoOp == [purpose |-> 0, process |-> 0, platform |-> <<>>, address |-> <<>>, extra |-> <<>>]

NoAct == [account |-> 0, name |-> 0, data |-> <<>>]

HelpersInit ==
    \/ part = "quorum" /\ Init /\ id = 0 /\ op = NoOp /\ act = NoAct
    \/ part = "names" /\ roster = {} /\ sigs = <<>> /\ id = 0 /\ op = NoOp /\ act = NoAct
    \/ /\ part = "codec" /\ roster = {} /\ sigs = <<>> /\ id = 0
       /\ op \in Operations /\ act \in Actions

NextId == part = "names" /\ id < MaxId /\ id' = id + 1 /\ UNCHANGED <<part, roster, sigs, op, act>>

HelpersNext ==
    \/ part = "quorum" /\ Next /\ UNCHANGED <<part, id, op, act>>
    \/ NextId

HelpersSpec == HelpersInit /\ [][HelpersNext]_helperVars

\* The name derived from any cache id up to MaxId is that id's base-31
\* numeral. So two ids below 31^9 never yield the same account name
\* (spec 4.4: provisioning is collision-free while the counter does not
\* wrap).
EncodeIsBase31 == EncodeName(id) = Base31Numeral(id)

\* Spec 8: decode_operation recovers every field of an encoded operation.
\* It also recovers them when bytes follow the encoding. It aborts on every
\* proper prefix of the encoding, so a truncated origin_extra is never
\* read as an operation.
OperationRoundTrip ==
    LET e == EncodeOperation(op)
    IN  /\ \A junk \in Payloads :
               DecodeOperation(e \o junk) = [ok |-> TRUE, op |-> op]
        /\ \A k \in 0..Len(e) - 1 : DecodeOperation(SubSeq(e, 1, k)) = Abort

\* parse_action reads back the account, name and data of an encoded
\* instruction, and aborts on a proper prefix of its account and name.
\* A payload of another kind gives no target. An empty payload aborts the
\* transaction, although spec 4.6 step 10 treats a missing instruction as
\* no error.
ActionRoundTrip ==
    /\ LET e == EncodeAction(act)
       IN  /\ ParseAction(e) = [ok |-> TRUE, account |-> act.account, name |-> act.name,
                                data |-> act.data]
           /\ \A k \in 1..2 * NameBytes : ParseAction(SubSeq(e, 1, k)) = Abort
    /\ \A p \in Payloads \ {<<>>, <<0>>} :
           ParseAction(p) = [ok |-> TRUE, account |-> 0, name |-> 0, data |-> <<>>]
    /\ ParseAction(<<>>) = Abort
=============================================================================
