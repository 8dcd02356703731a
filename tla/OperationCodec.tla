--------------------------- MODULE OperationCodec ---------------------------
(***************************************************************************)
(* The byte decoders of mixinproxy.cpp: decode_operation, which reads the *)
(* operation an indirect event carries in its origin_extra, and            *)
(* parse_action, which reads the forwarded instruction from an extra.      *)
(* Both read through eosio's datastream, whose every read checks that the  *)
(* bytes are there and otherwise aborts the transaction.  A decoder        *)
(* therefore returns [ok |-> FALSE] for an abort, or [ok |-> TRUE, ...]    *)
(* with what it read.  Bytes are numbers 0..255 and buffers sequences of   *)
(* them; integers read with ds >> are little-endian, as on WebAssembly.    *)
(***************************************************************************)
EXTENDS Naturals, Sequences

ProcessBytes == 16      \* sizeof(uint128_t)
NameBytes == 8          \* sizeof(name), a uint64_t

Abort == [ok |-> FALSE]

\* The bytes buf holds after position pos, when it holds k of them.
Fits(buf, pos, k) == pos + k <= Len(buf)

Bytes(buf, pos, k) == SubSeq(buf, pos + 1, pos + k)

\* ds >> of an unsigned integer: k raw bytes, least significant first.
RECURSIVE LittleEndian(_)
LittleEndian(b) == IF b = <<>> THEN 0 ELSE Head(b) + 256 * LittleEndian(Tail(b))

\* Mutant: read_uint16 assembles the two bytes in the opposite order.
MutReadUint16(buf, pos) == buf[pos + 2] * 256 + buf[pos + 1]

\* read_uint16: ds >> c1 >> c2; return (c1 << 8) | c2 (big-endian).
ReadUint16(buf, pos) == buf[pos + 1] * 256 + buf[pos + 2]

\* The three length-prefixed vectors platform, address and extra, from
\* position pos: read_uint16 of the length, resize, ds.read of the bytes.
RECURSIVE ReadVectors(_, _, _)
ReadVectors(buf, pos, count) ==
    IF count = 0 THEN [ok |-> TRUE, vs |-> <<>>]
    ELSE IF ~Fits(buf, pos, 2) THEN Abort
    ELSE LET len == ReadUint16(buf, pos)
         IN  IF ~Fits(buf, pos + 2, len) THEN Abort
             ELSE LET rest == ReadVectors(buf, pos + 2 + len, count - 1)
                  IN  IF ~rest.ok THEN Abort
                      ELSE [ok |-> TRUE,
                            vs |-> <<Bytes(buf, pos + 2, len)>> \o rest.vs]

\* decode_operation(extra): purpose, process, then the three vectors.
\* Bytes after the last vector are ignored (no check that ds is at its end).
DecodeOperation(extra) ==
    IF ~Fits(extra, 0, 2 + ProcessBytes) THEN Abort
    ELSE LET v == ReadVectors(extra, 2 + ProcessBytes, 3)
         IN  IF ~v.ok THEN Abort
             ELSE [ok |-> TRUE,
                   op |-> [purpose |-> ReadUint16(extra, 0),
                           process |-> LittleEndian(Bytes(extra, 2, ProcessBytes)),
                           platform |-> v.vs[1], address |-> v.vs[2],
                           extra |-> v.vs[3]]]

\* Mutant: the data starts one byte early, at the last byte of the name.
MutParseAction(extra) ==
    IF ~Fits(extra, 0, 1) THEN Abort
    ELSE IF extra[1] # 0 THEN [ok |-> TRUE, account |-> 0, name |-> 0, data |-> <<>>]
    ELSE IF ~Fits(extra, 1, 2 * NameBytes) THEN Abort
    ELSE [ok |-> TRUE,
          account |-> LittleEndian(Bytes(extra, 1, NameBytes)),
          name |-> LittleEndian(Bytes(extra, 1 + NameBytes, NameBytes)),
          data |-> SubSeq(extra, 1 + 2 * NameBytes, Len(extra))]

\* parse_action(extra): ds >> c (which aborts on an empty extra); a kind
\* other than 0 gives an action with no target (account name(), i.e. 0);
\* otherwise account and name, and the remaining bytes as data.
ParseAction(extra) ==
    IF ~Fits(extra, 0, 1) THEN Abort
    ELSE IF extra[1] # 0 THEN [ok |-> TRUE, account |-> 0, name |-> 0, data |-> <<>>]
    ELSE IF ~Fits(extra, 1, 2 * NameBytes) THEN Abort
    ELSE [ok |-> TRUE,
          account |-> LittleEndian(Bytes(extra, 1, NameBytes)),
          name |-> LittleEndian(Bytes(extra, 1 + NameBytes, NameBytes)),
          data |-> SubSeq(extra, 2 + 2 * NameBytes, Len(extra))]

(***************************************************************************)
(* Reference encoders, from the layout the decoders read (spec 8: the      *)
(* operation is encoded as purpose, process, platform, address, extra;     *)
(* lengths are 16-bit prefixes).                                           *)
(***************************************************************************)

EncodeUint16(n) == <<n \div 256, n % 256>>

RECURSIVE EncodeLittleEndian(_, _)
EncodeLittleEndian(n, k) ==
    IF k = 0 THEN <<>> ELSE <<n % 256>> \o EncodeLittleEndian(n \div 256, k - 1)

EncodeVector(v) == EncodeUint16(Len(v)) \o v

EncodeOperation(op) ==
    EncodeUint16(op.purpose) \o EncodeLittleEndian(op.process, ProcessBytes)
        \o EncodeVector(op.platform) \o EncodeVector(op.address)
        \o EncodeVector(op.extra)

EncodeAction(a) ==
    <<0>> \o EncodeLittleEndian(a.account, NameBytes)
        \o EncodeLittleEndian(a.name, NameBytes) \o a.data
=============================================================================
