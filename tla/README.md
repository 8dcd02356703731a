# TLA+ models of the MVM EOS contracts

This directory holds TLA+ models of the EOS side of the Mixin Virtual Machine bridge
(`src/mvm/eos/`), together with the TLC configurations that check them. Every
definition is translated from the contract source. `PROJECT.json` lists the lines
each definition models.

## The system

Three contracts interact:

* **mtg.xin** (`cppcontracts/mtg.xin`). It keeps the registered processes
  (`processes`, one per contract, set once by `addprocess`). Its `txrequest`
  action numbers an outgoing transfer request with the counter
  `KEY_TX_REQUEST_SEQ` and emits it as an inline `ontxlog` action, which the MTG
  nodes read from the action trace. The `logs` table is declared but never
  written. mixinproxy reads the signer roster from a `signers` table under
  mtg.xin's account, but the mtg.xin source neither declares nor writes it.
* **mixinproxy** (`cppcontracts/mixinproxy`). It receives signed Mixin deposits
  (`tx_event`) through `onevent` and `onerrorevent`, and does the following:
  * it checks the signatures against the mtg.xin roster (`verify_signatures`);
  * it admits each nonce once (`check_nonce`);
  * it charges the per-symbol transfer fee (`check_fee`, `add_fee`);
  * it refunds expired events through an inline `txrequest` to mtg.xin (`check_expiration`, `refund`);
  * it maps the Mixin user to an EOS account, provisioning one for an MEOS deposit (`check_account`, `get_next_available_account`, `create_new_account`);
  * it issues and transfers the wrapped token through eosio.token (`issue_asset`);
  * it forwards the action that the event's `extra` names (`parse_action`, `decode_operation`).

  Events whose origin extra is not yet known are parked in `pendingevts` and
  finished by `execpending`. Error events are parked in `errorevents` and retried
  by `exec`.
* **dappdemo** (`cppcontracts/dappdemo`). It is an example application that
  receives forwarded actions with a strict per-process nonce and replies through
  mtg.xin.

The EOS execution model determines how everything is modelled. Each action is
one atomic transaction, and a failing `check()` anywhere, inline actions
included, reverts all of it. An aborting path is therefore *no step* in the
models, and its guard is the negation of the abort condition. Actions of
different transactions interleave arbitrarily, and block time advances between
them.

## Modules

| module | models | state | actions |
|---|---|---|---|
| `NonceAbstract` | what check_nonce promises | `admitted` | `Admit(n)`: a nonce at or above the first nonce, admitted at most once |
| `NonceSequencer` | `get_nonce`, `inc_nonce`, `check_nonce` | `nonce` (counters[KEY_NONCE]), `submitted` (submittedevs) | `Submit(n)` |
| `QuorumCheck` | `verify_signatures` | `roster` (signers of mtg.xin), `sigs` | `AddSignature(k)` |
| `AccountName` | `get_next_available_account`'s digit loop | pure operators | none |
| `OperationCodec` | `read_uint16`, `decode_operation`, `parse_action` | pure operators over byte sequences; a read past the end is `Abort`, as eosio's datastream aborts | none |
| `MCMixinProxyHelpers` | the pure computations checked together: `QuorumCheck`, `AccountName`, `OperationCodec` | `part` (which computation a behaviour checks), `roster`, `sigs`, `id` (accountcache.id), `op`, `act` (an encoded input, chosen initially) | `AddSignature(k)`, `NextId` (record.id += 1) |
| `MtgXin` | mtg.xin | `processes`, `seq` (KEY_TX_REQUEST_SEQ), `txlog` (the ontxlog trace) | `AddProcess`, `TxRequest` (also the operator callers conjoin as their inline txrequest), `ExternalRequest` |
| `DappDemo` | dappdemo composed with `MtgXin` | `counters` (KEY_NONCE, KEY_TX_REQUEST_INDEX rows), the mtg.xin variables | `OnEvent(ev)`, `AddProcess`, `OtherRequest` (another contract's txrequest) |
| `Secp256k1Group` | `group_impl.h` of libsecp256k1-zkp, the curve arithmetic behind signature recovery | `acc` (a `secp256k1_gej_t` accumulator), `k` (the scalar it should hold) | `SetInfinity`, `SetXY`, `SetGe`, `Double`, `AddVar`, `AddGeVar`, `AddZinvVar`, `Neg`, `Rescale`, applied in place (r aliasing a) as ecmult does |
| `MixinProxy` | the whole mixinproxy contract, composed with `MtgXin` | nonce tables, `now`, `assets`, `fees`, `totals`, `cache`, `bind`, `created`, `pending`, `errors`, token `stats`/`supply`, `txReq`, the mtg.xin variables, `effects`, `charged` | `Register` (addprocess for mixinproxy), `Initialize`, `OnEvent`, `OnErrorEvent`, `Exec`, `ExecPending`, `AddAsset`, `RemoveAsset`, `SetFee`, `Tick` |

`MixinProxy` composes the others:
* `check_nonce` is `INSTANCE NonceSequencer`, whose refinement of
  `NonceAbstract` is checked by the `mcnonce` run;
* names come from `AccountName`;
* mtg.xin is `INSTANCE MtgXin`. The constructor's lookup of the contract's process
  is the guard `Constructed` on every action. `Admit` checks the event's process
  against the registered one. `Refund` conjoins `Mtg!TxRequest`, so a refund is
  logged by mtg.xin or the whole transaction aborts;
* the mixinwtokens actions are `TokenIssueTransfer`, the checks eosio.token makes of
  the create, issue and transfer payloads declared in `token.hpp`;
* the signature check is taken as passed for events of `Up`, the fixed set of
  upstream events indexed by nonce, because forged events abort and are left to
  `QuorumCheck`.

An event is a record with the following fields:
* asset, user, amount, timestamp;
* `kind` (extra[0]) and `long`, which says whether the extra carries the 32-byte hash;
* `act`, which is what `parse_action` yields: no target, a target that accepts, or a target that aborts.

The origin extra passed to an action is one of `none`, `good` or `bad`, standing
for empty, hash-matching and mismatching. The inline effects are recorded per
nonce in `effects` as `refund`, `issue` and `forward` records. The eosio.token
checks that can abort an issue are guards:
* the quantity is positive;
* the supply stays within the max supply;
* the receiver exists.

The overflow checks of `asset +=` are guards as well.

Numbers are scaled down with their widths:
* `MaxAmount` = 3 stands for MAX_AMOUNT;
* `I64Mod` = 16 and `U128Mod` = 256 stand for the int64 and uint128 conversions;
* `TsPerSecond` = 2 stands for 10^9 ns per second.

The conversions are kept. `int64_t(amount)` wraps modulo `I64Mod`, and a negative fee becomes
`ToUint128(fee)`.

### The group arithmetic

`Secp256k1Group` translates every group function into an operator over
records `[x, y, inf]` (ge) and `[x, y, z, inf]` (gej). The translation is
statement by statement: the same temporaries, the same branch on
`normalizes_to_zero`, and the same `cmov`s in `gej_add_ge`. A function that
writes through `r` returns the new `r`, and fields the code does not assign keep
their old values. This matters after an infinity result, whose coordinates are
stale.

The field type (`field.h`) is not in this repository. It is abstracted as
normalized arithmetic modulo `P`: `fe_inv` is `a^(P-2)`, and `fe_sqrt_var` is
`a^((P+1)/4)` followed by a check of its square. Both are valid because `P` is a
prime ≡ 3 mod 4, as secp256k1's prime is.

The model uses the curve y² = x³ + 7 over GF(43) (`MCSecp256k1Group`). It keeps
every property of secp256k1 that the code relies on:
* the group has prime order 31;
* -7 is not a cube, so no point has y = 0 and doubling never yields infinity;
* there is a cube root of unity β = 6, so `ge_mul_lambda` is an endomorphism.

The reference semantics are the affine group law (`RefAdd`) and the multiples
`Mult[n] = n·G`.
## Runs

| run | cfg | expect | shows |
|---|---|---|---|
| mcnonce | MCNonceSequencer.cfg | pass | check_nonce refines "each nonce ≥ 1 once" (`RefinesNonceAbstract`), markers stay above the mark (`TypeOK`), and the mark advances over every nonce that arrives (`MarkConverges`, under weak fairness of submissions). Nonces 0..7, with 0 below the initial mark. |
| helpers | MCMixinProxyHelpers.cfg | pass | With distinct signers, verify_signatures accepts exactly when more than 2/3 of the roster signed (`VerifyExactOnDistinct`). Rosters range over every subset of 4 keys, plus one outsider key, and up to 4 signatures. The name loop equals the 9-digit base-31 numeral for ids 0..1000 (`EncodeIsBase31`). `decode_operation` reads back every operation encoded in the spec's layout, also with trailing bytes, and aborts on each proper prefix (`OperationRoundTrip`, spec §8). `parse_action` reads back account, name and data, gives no target for another kind byte, and aborts on an empty payload (`ActionRoundTrip`). Each behaviour checks one part: the signature walk, the id walk 0..1000, or one of the 384 operations or 24 instructions, with trailing bytes from four payloads. |
| quorum_dup | MCMixinProxyHelpersDup.cfg | violation | `VerifyImpliesQuorum` fails: roster {k1,k2} accepts `<<k1,k1>>`. |
| mixinproxy | MCMixinProxy.cfg | pass | Over three events, every interleaving of deliveries, retries, admin actions and clock ticks. It checks: no event is both refunded and issued, or issued twice (`ResolvedAtMostOnce`); bound accounts exist (`BoundAccountsCreated`); what is issued is the amount net of the fee charged (`IssuedNetOfFee`); an event goes from received to done directly or through one pending or error record, never leaves done, and has its refund, issue or forward sent only in the step that makes it done (`EventLifecycle`, an action property over every handler). mtg.xin's registration of mixinproxy interleaves with all of these. |
| mixinproxy_live | MCMixinProxyLive.cfg | pass | With `exec` and the clock weakly fair, every pending and error record is eventually removed (`DeferredDrain`). |
| maxamount_error | MCMixinProxyMaxAmount.cfg | violation | An error event with amount = MAX_AMOUNT is accepted by `onerrorevent`. Once it expires, its refund aborts, and `exec` is stuck for good. |
| provision_issue | MCMixinProxyProvision.cfg | violation | The MEOS deposit that provisions a user's account is never issued (`ProvisioningIssues`). |
| refund_amount | MCMixinProxyRefund.cfg | violation | An expired event is refunded net of the fee (`RefundsOriginalAmount`). |
| dappdemo | MCDappDemo.cfg | pass | The publisher delivers four events (one of them for another process) in any order and repeats them. mtg.xin registrations, possibly under the wrong process, and another contract's requests interleave. Checks: the dapp's requests are logged with request nonces 0, 1, ..., for consecutive event nonces, one per event (`DappLogInOrder`); once registered, the expected nonce always advances (`NonceAdvances`). |
| secp256k1_group | MCSecp256k1Group.cfg | pass | Any sequence of in-place operations on the accumulator keeps it equal to `k·G` (`WalkSound`). Two points are equal when x·z² and y·z³ agree; stale coordinates behind the infinity flag are never used. Every conversion agrees with the affine point it encodes (`ConversionsAgree`): `set_gej`, `set_gej_var`, batch conversion with infinities in the middle, the z-ratio table, the global-z table, `is_valid` and `eq_x`. `gej_add_ge` is the group sum except in its degenerate case (`AddGeSum`). Decompression, storage, `cmov`, negation and the λ endomorphism agree with the scalar multiples (`PointCodecs`). |
| forward_unregistered | MCMixinProxyForward.cfg | violation | `ForwardOnlyAfterIssue` fails in 5 steps. Event 3 (asset a2, registered as MEOS) provisions u1. Then event 1, of the unregistered asset a1, is resolved: nothing is issued, but its instruction is forwarded with u1's authority. |
| dapp_blocked | MCDappDemoMaxAmount.cfg | violation | The event of nonce 2 carries amount 2^62-1 (scaled: 3). Every delivery aborts on `amount < MAX_AMOUNT` and the dapp's nonce stays at 2 forever. |

`MCUp` holds three events, which together cover every branch:
* an MEOS deposit that provisions a new user;
* a long-extra event that goes through the pending table;
* an event of a second asset whose forwarded action aborts.

Time runs 0..3 with a 1-second expiration window, so each event can be handled
both fresh and after it expires. `MaxAccountId` = 3 lets the account cache
advance twice, past the first user account. mtg.xin may register mixinproxy
under the event's process or another one, so the registry precondition and the
process check are both exercised. `EventLifecycle` derives each event's status
from the tables: not admitted, in `pendingevts`, in `errorevents`, or done.
It then requires that `effects` of an event change only in the step that makes
it done. A handler that sends for an event it leaves parked, or that sends
again for a done event, breaks it. For example, exec refunding an expired
pending event without erasing it.

The dappdemo runs use three event nonces, so a delivery can arrive before,
at or after the expected nonce. They also use one event of another process, and
up to 4 log entries from another contract, so its requests interleave with the dapp's.

**Fairness.** `exec` and `execpending` are permissionless actions that a keeper
process calls repeatedly, and block time always advances. `FairSpec` therefore
assumes weak fairness of `Exec` and `Tick` only. It assumes nothing of deliveries,
which depend on the MTG nodes. `MarkConverges` assumes weak fairness of each
nonce's submission, which is the relayer's promise to deliver every event.
`DappDemo`'s `FairSpec` assumes weak fairness of `OnEvent(ev)` for each
event: the MTG publisher keeps redelivering an event until it commits. It
assumes nothing of the mtg.xin admin. The dappdemo runs set `CHECK_DEADLOCK FALSE`
because the system legitimately stops once every event is forwarded and the
other contract's bounded requests are sent.

`secp256k1_group` starts from infinity, and takes inputs b = n·G for every n in
1..30 and every z in {1, 3}, with rescaling by 3. The walk therefore reaches every
multiple under several Jacobian representations. `AddGeSum` and `PointCodecs`
quantify over all 31 multiples.

## Findings

See `PROJECT.json` "findings":
* the repeated-signature quorum;
* the missing amount check in `onerrorevent`, which blocks `exec`;
* the dropped first MEOS deposit;
* the refund that is short by the fee;
* dappdemo's strict nonce, blocked for good by an event at the amount bound;
* the instruction forwarded for an event whose asset has no symbol. `handle_event`
  ignores `issue_asset`'s result, where spec §4.6 step 9 soft-stops. The same
  happens to an event parked before a `removeasset` of its symbol.

There is also a behaviour of `gej_add_ge` that is not a recorded finding. For
a finite a and b with y_a = -y_b but x_a ≠ x_b (b = -λa or -λ²a), M = y1 + y2 is
0, so Z3 = 0 and the result is flagged infinite, although a + b is a finite
point. This is the degenerate case of the unified addition formula that later
libsecp256k1 versions handle with an extra branch. `AddGeSum` states the
behaviour of this version exactly: the group sum off the degenerate case, and
infinity on it. The constant-time multiplication paths must never feed it such
a pair.

## Not modelled

* The field arithmetic (`field.h`, not in this repository) is abstracted as
  arithmetic modulo `P`, as described above. `gej_clear` and `ge_clear` only
  wipe memory. `ge_const_g2` is an unused constant. Key recovery in mixinproxy
  stays abstracted as the signer's identity, and `Secp256k1Group` checks the
  arithmetic recovery is built on.
* Byte-level serialization of `tx_event` (`datastream`) and sha256 are
  abstracted to the event fields listed above. `decode_operation` and
  `parse_action` are modelled byte by byte in `OperationCodec` and checked on
  their own, while `MixinProxy` uses their outcome (`act`). The operations'
  encoder is not in this repository, so the round trip is checked against a
  reference encoder written from the layout the decoder reads. The signed range of a `tx_event`
  assumes a one-byte signature count. That holds below 128 signatures, and is
  not modelled.
* `sayhello`, `dowork`, `setaccfee`, `ontransfer` and `error` have empty
  bodies, or only print, so they change no state and are not actions.
* The spec's soft stop on an extra-hash mismatch (§8), which removes the pending
  record "regardless of outcome", has no property. In the code the mismatch
  aborts, and an aborted call is no step of the model.
* Negative transfer fees are not enumerated. `setfee` accepts them, and
  `check_fee` converts them to a huge uint128 and so drops every event, while
  the spec's `amount >= fee` would accept every event. Neither is an intended
  configuration, so no property states one of them.
* Account ids at or above 31^9, where the 9-digit name would wrap, exceed TLC's
  integers. The name encoding is checked for ids 0..1000.
