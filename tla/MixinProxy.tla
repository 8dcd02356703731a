----------------------------- MODULE MixinProxy -----------------------------
(***************************************************************************)
(* The mixinproxy contract (mixinproxy.cpp): events signed by the MTG      *)
(* network are submitted by a relay through onevent or onerrorevent,       *)
(* sequenced by check_nonce, charged a fee, refunded when expired, parked  *)
(* in the pendingevts or errorevents table, or resolved: a local account   *)
(* is bound to the user, the wrapped token is issued to it and the         *)
(* instruction embedded in the event is forwarded on its behalf.           *)
(*                                                                         *)
(* Every action is one EOS action that commits.  A check() that fails      *)
(* aborts the whole transaction, inline actions (newaccount, token issue   *)
(* and transfer, the forwarded instruction, txrequest) included, so an     *)
(* aborting path is simply not a step.  The inline actions of the token    *)
(* contract mixinwtokens are modelled by the checks eosio.token makes.     *)
(***************************************************************************)
EXTENDS Naturals, Integers, Sequences, FiniteSets, FiniteSetsExt, Functions, TLC, AccountName

CONSTANTS
    Nonces,             \* the nonces of the signed events
    Up,                 \* Up[n]: the event the MTG network signed with nonce n
    Users,              \* member identifiers (members[0] of an event)
    AssetIds,           \* MTG asset ids
    Symbols,            \* token symbols, ordered as their raw codes
    MEOS,               \* symbol("MEOS", 8), the symbol that pays for accounts
    Fees,               \* fee amounts the admin may set with setfee
    MaxAmount,          \* MAX_AMOUNT = 2^62 - 1, scaled
    I64Mod,             \* 2^64, scaled with MaxAmount: the int64 cast
    U128Mod,            \* 2^128, scaled: the uint128 cast of a negative fee
    TsPerSecond,        \* event timestamps are in nanoseconds: 10^9, scaled
    ExpirationWindow,   \* MTG_WORK_EXPIRATION_SECONDS, scaled
    MaxTime,            \* bound: the last chain second modelled
    MaxAccountId,       \* bound: the largest account cache id modelled
    Proxy,              \* the mixinproxy account
    UpProcess,          \* the MTG process that signs the events of Up
    ProcessIds          \* process ids the mtg.xin admin may register

NoSymbol == 0           \* symbol(): raw value 0
NoAccount == <<>>       \* name(): the empty name
Extras == {"none", "good", "bad"}   \* origin_extra: empty, hashing to the
                                    \* commitment in extra, or not

ASSUME NoSymbol \notin Symbols /\ MEOS \in Symbols /\ Symbols \subseteq Nat

EventType == [asset: AssetIds, user: Users, amount: Nat, ts: Nat,
              kind: 0..2,              \* extra[0]
              long: BOOLEAN,           \* extra.size() > 1 + 32
              act: {"none", "ok", "fail"}]  \* the embedded action: target
                                       \* unset, or sent and succeeding/failing

VARIABLES
    nonce, submitted,   \* counter KEY_NONCE and table submittedevs
    now,                \* current_time_point(), in seconds
    assets,             \* table mixinassets: a set of [sym, id]
    fees,               \* table transferfees: symbol -> fee (0: no row)
    totals,             \* table totalfees: symbol -> accumulated fees
    cache,              \* singleton accountcache: [id, account], or <<>>
    bind,               \* table bindaccounts: user -> account
    created,            \* accounts created by newaccount inline actions
    pending,            \* table pendingevts: nonce -> [ev, account]
    errors,             \* table errorevents: nonce -> [ev, extra]
    stats,              \* mixinwtokens stat rows: symbols created
    supply,             \* mixinwtokens supply per symbol
    txReq,              \* counter KEY_TX_REQUEST_INDEX
    processes, seq, txlog,  \* mtg.xin: registry, KEY_TX_REQUEST_SEQ, ontxlog
    effects,            \* history: nonce -> outbound actions sent for it
    charged             \* history: nonce -> fee deducted by check_fee

seqVars == <<nonce, submitted>>
regVars == <<assets, fees>>
acctVars == <<cache, bind, created>>
tokenVars == <<stats, supply>>
queueVars == <<pending, errors>>
reqVars == <<txReq, seq, txlog>>
vars == <<seqVars, now, regVars, totals, acctVars, queueVars, tokenVars,
          reqVars, processes, effects, charged>>

Sequencer == INSTANCE NonceSequencer

\* The refund requests mixinproxy sends to mtg.xin: the event refunded and
\* the amount sent back.
RefundRequest == [event: Nonces, amount: Nat]

Mtg == INSTANCE MtgXin WITH Contracts <- {Proxy}, Callers <- {},
                            RequestNonces <- {}, Requests <- RefundRequest,
                            MaxLog <- 0

(***************************************************************************)
(* Conversions and lookups                                                 *)
(***************************************************************************)

\* asset(int64_t(amount), sym): the uint128 amount truncated to int64.
ToInt64(a) == LET m == a % I64Mod IN IF m >= I64Mod \div 2 THEN m - I64Mod ELSE m

\* uint128_t(fee.amount) of an int64 fee.
ToUint128(f) == IF f >= 0 THEN f ELSE U128Mod + f

\* asset::is_valid(): |amount| <= max_amount.
AssetInRange(v) == -MaxAmount <= v /\ v <= MaxAmount

\* get_symbol: the byassetid index finds the row of lowest primary key among
\* those with the asset id; symbol() when there is none.
GetSymbol(id) ==
    LET syms == {r.sym : r \in {r \in assets : r.id = id}}
    IN  IF syms = {} THEN NoSymbol ELSE Min(syms)

\* get_transfer_fee: asset() (amount 0) when the symbol has no row.
GetTransferFee(sym) == IF sym = NoSymbol THEN 0 ELSE fees[sym]

\* get_account: name() when the user has no binding.
GetAccount(u) == IF u \in DOMAIN bind THEN bind[u] ELSE NoAccount

\* check_expiration's test: timestamp / 10^9 + 180 < now.
Expired(ev) == ev.ts \div TsPerSecond + ExpirationWindow < now

\* create_account_fee_singleton::get_or_default(): setaccfee writes nothing,
\* so the fee is always the default asset() of amount 0.
CreateAccountFee == 0

\* parse_action: the instruction embedded in extra (extra[0] = 0), or in the
\* extra of the operation decode_operation reads from origin_extra
\* (extra[0] = 1); any other kind yields an action with no target.
ParsedAction(ev) == IF ev.kind \in {0, 1} THEN ev.act ELSE "none"

\* create_new_account: the newaccount inline action, which fails when the
\* name exists.  Fixes created.
CreateNewAccount(name) ==
    /\ name \notin created
    /\ created' = created \cup {name}

Erase(f, k) == Restrict(f, DOMAIN f \ {k})

Record(f, k, v) == (k :> v) @@ f

(***************************************************************************)
(* Steps shared by the handlers.  Each one fixes the primed value of the   *)
(* variables it names; the handler fixes the rest.                         *)
(***************************************************************************)

\* get_next_tx_request_nonce, i.e. get_next_index(KEY_TX_REQUEST_INDEX):
\* the counter's value, and its value after the row is incremented (or
\* created with count 1 when missing, which a row holding 0 stands for).
GetNextTxRequestNonce(count) == [index |-> count, count |-> count + 1]

\* refund: allocate a tx request id (get_next_index) and send txrequest,
\* after check(amount < MAX_AMOUNT); mtg.xin logs it.  Fixes reqVars,
\* effects.
Refund(n, ev) ==
    /\ ev.amount < MaxAmount
    /\ txReq' = GetNextTxRequestNonce(txReq).count
    /\ Mtg!TxRequest(GetNextTxRequestNonce(txReq).index, Proxy, processes[Proxy],
                     [event |-> n, amount |-> ev.amount])
    /\ effects' = [effects EXCEPT ![n] = Append(@, [op |-> "refund", amount |-> ev.amount, id |-> txReq])]

\* get_next_available_account followed by the binding of check_account:
\* the id advances, the name of the new id is created (newaccount fails
\* for a name that exists), and the user is bound to the name created one
\* call earlier (emplace fails if that account is bound already).
\* Fixes cache, bind, created.
Provision(u) ==
    /\ cache # <<>>                                  \* cache.get()
    /\ cache.id < MaxAccountId
    /\ LET next == EncodeName(cache.id + 1)
       IN  /\ cache.account \notin Range(bind)
           /\ cache' = [id |-> cache.id + 1, account |-> next]
           /\ CreateNewAccount(next)
           /\ bind' = Record(bind, u, cache.account)

\* check_account for a user without a binding: provision when the event
\* pays in MEOS at least the account fee; the caller then gets name() in
\* either case.  Fixes cache, bind, created.
BindNewUser(ev) ==
    \/ /\ GetSymbol(ev.asset) = MEOS
       /\ ev.amount >= CreateAccountFee
       /\ Provision(ev.user)
    \/ /\ ~(GetSymbol(ev.asset) = MEOS /\ ev.amount >= CreateAccountFee)
       /\ UNCHANGED acctVars

\* The mixinwtokens actions issue_asset sends (token.hpp): create when the
\* symbol has no stat row (max_supply MAX_AMOUNT), issue to the contract,
\* transfer to the account.  eosio.token aborts them for a quantity out of
\* range or not positive, past the max supply, or for a receiver that does
\* not exist.  Fixes stats, supply.
TokenIssueTransfer(sym, v, to) ==
    /\ AssetInRange(v)
    /\ v > 0
    /\ supply[sym] + v <= MaxAmount
    /\ to \in created
    /\ stats' = stats \cup {sym}
    /\ supply' = [supply EXCEPT ![sym] = @ + v]

\* issue_asset then the forwarded instruction of handle_event, for a user
\* bound to an account.  A failing forwarded instruction aborts the
\* transaction.  Fixes stats, supply, effects.
Resolve(n, ev) ==
    LET sym == GetSymbol(ev.asset)
        acc == GetAccount(ev.user)
        v == ToInt64(ev.amount)
        act == ParsedAction(ev)
        issue == IF sym = NoSymbol THEN <<>>
                 ELSE <<[op |-> "issue", sym |-> sym, amount |-> v, to |-> acc]>>
        forward == IF act = "ok" THEN <<[op |-> "forward", from |-> acc]>> ELSE <<>>
    IN  /\ act # "fail"
        /\ \/ /\ sym = NoSymbol
              /\ UNCHANGED tokenVars
           \/ /\ sym # NoSymbol
              /\ TokenIssueTransfer(sym, v, acc)
        /\ effects' = [effects EXCEPT ![n] = @ \o issue \o forward]

\* handle_event(event, origin_extra).  Fixes acctVars, tokenVars, reqVars,
\* effects.
HandleEvent(n, ev, x) ==
    \/ /\ Expired(ev)
       /\ Refund(n, ev)
       /\ UNCHANGED <<acctVars, tokenVars>>
    \/ /\ ~Expired(ev)
       /\ GetAccount(ev.user) = NoAccount
       /\ BindNewUser(ev)
       /\ UNCHANGED <<tokenVars, reqVars, effects>>
    \/ /\ ~Expired(ev)
       /\ GetAccount(ev.user) # NoAccount
       /\ ev.kind = 1 /\ ~ev.long                    \* extra.size() <= 1 + 32
       /\ UNCHANGED <<acctVars, tokenVars, reqVars, effects>>
    \/ /\ ~Expired(ev)
       /\ GetAccount(ev.user) # NoAccount
       /\ ev.kind = 1 => (ev.long /\ x = "good")     \* both check()s on origin_extra
       /\ Resolve(n, ev)
       /\ UNCHANGED <<acctVars, reqVars>>

\* handle_pending_event: park the event under the account of its user.
\* Fixes acctVars, pending.
HandlePendingEvent(n, ev) ==
    \/ /\ GetAccount(ev.user) # NoAccount
       /\ n \notin DOMAIN pending
       /\ pending' = Record(pending, n, [ev |-> ev, account |-> GetAccount(ev.user)])
       /\ UNCHANGED acctVars
    \/ /\ GetAccount(ev.user) = NoAccount
       /\ BindNewUser(ev)
       /\ UNCHANGED pending

\* check_fee: the event with the fee deducted, when it can pay it.
FeeOf(ev) == GetTransferFee(GetSymbol(ev.asset))

PaysFee(ev) == FeeOf(ev) = 0 \/ ev.amount >= ToUint128(FeeOf(ev))

\* Mutant: check_fee takes the event by value, so the deduction is lost.
MutAfterFee(ev) == ev

AfterFee(ev) == [ev EXCEPT !.amount = @ - FeeOf(ev)]

\* add_fee: asset += checks the total stays within max_amount.  Fixes
\* totals, charged.
AddFee(n, ev) ==
    LET sym == GetSymbol(ev.asset)
    IN  IF FeeOf(ev) = 0
        THEN UNCHANGED <<totals, charged>>
        ELSE /\ totals[sym] + FeeOf(ev) <= MaxAmount
             /\ totals' = [totals EXCEPT ![sym] = @ + FeeOf(ev)]
             /\ charged' = [charged EXCEPT ![n] = FeeOf(ev)]

(***************************************************************************)
(* The contract's actions                                                  *)
(***************************************************************************)

Name == Seq(0..NameBase - 1)

EffectType == [op: {"refund"}, amount: Nat, id: Nat] \cup
              [op: {"issue"}, sym: Symbols, amount: Int, to: Name] \cup
              [op: {"forward"}, from: Name]

TypeOK ==
    /\ nonce \in Nat /\ submitted \subseteq {i \in Nonces : i > nonce}
    /\ now \in 0..MaxTime
    /\ assets \subseteq [sym: Symbols, id: AssetIds]
    /\ fees \in [Symbols -> Fees] /\ totals \in [Symbols -> 0..MaxAmount]
    /\ cache = <<>> \/ cache \in [id: 1..MaxAccountId, account: Name]
    /\ DOMAIN bind \subseteq Users
    /\ DOMAIN pending \subseteq Nonces /\ DOMAIN errors \subseteq Nonces
    /\ stats \subseteq Symbols /\ supply \in [Symbols -> 0..MaxAmount]
    /\ txReq \in Nat
    /\ Mtg!TypeOK
    /\ effects \in [Nonces -> Seq(EffectType)]
    /\ charged \in [Nonces -> Fees \cup {0}]

Init ==
    /\ nonce = Sequencer!InitialNonce
    /\ submitted = {}
    /\ now = 0
    /\ assets = {}
    /\ fees = [s \in Symbols |-> 0]
    /\ totals = [s \in Symbols |-> 0]
    /\ cache = <<>>
    /\ bind = <<>>
    /\ created = {}
    /\ pending = <<>>
    /\ errors = <<>>
    /\ stats = {}
    /\ supply = [s \in Symbols |-> 0]
    /\ txReq = 0
    /\ Mtg!Init
    /\ effects = [n \in Nonces |-> <<>>]
    /\ charged = [n \in Nonces |-> 0]

\* The constructor, which runs before every action: mtg.xin must have a
\* process registered for this contract (check "process not found!").
Constructed == Proxy \in DOMAIN processes

\* addprocess on mtg.xin for this contract, by mtg.xin's admin.
Register(p) ==
    /\ Mtg!AddProcess(Proxy, p)
    /\ UNCHANGED <<seqVars, now, regVars, totals, acctVars, queueVars,
                   tokenVars, txReq, effects, charged>>

\* Mutant: initialize seeds the cache without creating the first account.
MutInitialize ==
    /\ Constructed
    /\ cache = <<>>
    /\ cache' = [id |-> 1, account |-> FirstUserAccount]
    /\ UNCHANGED <<seqVars, now, processes, regVars, totals, bind, created, queueVars,
                   tokenVars, reqVars, effects, charged>>

\* initialize: seed the account cache and create FIRST_USER_ACCOUNT.
Initialize ==
    /\ Constructed
    /\ cache = <<>>
    /\ cache' = [id |-> 1, account |-> FirstUserAccount]
    /\ CreateNewAccount(FirstUserAccount)
    /\ UNCHANGED <<seqVars, now, processes, regVars, totals, bind, queueVars, tokenVars,
                   reqVars, effects, charged>>

\* Mutant: check_nonce inserts the marker but the advancing loop is missing.
MutAdmit(n) ==
    /\ Constructed /\ processes[Proxy] = UpProcess
    /\ Sequencer!NonceAdmissible(nonce, submitted, n)
    /\ nonce' = nonce /\ submitted' = submitted \cup {n}

\* The checks onevent and onerrorevent share: signatures and process id
\* (events of Up carry a quorum and this contract's process id; forged ones
\* abort and are left to QuorumCheck), then check_nonce.
Admit(n) ==
    /\ Constructed /\ processes[Proxy] = UpProcess
    /\ Sequencer!NonceAdmissible(nonce, submitted, n)
    /\ LET s == Sequencer!AfterCheckNonce(nonce, submitted, n)
       IN  nonce' = s.nonce /\ submitted' = s.submitted

\* onevent(event, origin_extra) for the event signed with nonce n.
OnEvent(n, x) ==
    LET ev == AfterFee(Up[n]) IN
    /\ Admit(n)
    /\ \/ /\ ~PaysFee(Up[n])
          /\ UNCHANGED <<totals, charged, acctVars, queueVars, tokenVars, reqVars, effects>>
       \/ /\ PaysFee(Up[n])
          /\ AddFee(n, Up[n])
          /\ \/ /\ Expired(ev)
                /\ Refund(n, ev)
                /\ UNCHANGED <<acctVars, queueVars, tokenVars>>
             \/ /\ ~Expired(ev)
                /\ ev.amount < MaxAmount
                /\ \/ /\ ev.kind = 1 /\ x = "none"
                      /\ HandlePendingEvent(n, ev)
                      /\ UNCHANGED <<errors, tokenVars, reqVars, effects>>
                   \/ /\ ~(ev.kind = 1 /\ x = "none")
                      /\ HandleEvent(n, ev, x)
                      /\ UNCHANGED queueVars
    /\ UNCHANGED <<now, processes, regVars>>

\* onerrorevent(event, reason, origin_extra): as onevent up to the
\* expiration check, with no amount check, then the event is parked in
\* errorevents unless it waits for its origin_extra.
OnErrorEvent(n, x) ==
    LET ev == AfterFee(Up[n]) IN
    /\ Admit(n)
    /\ \/ /\ ~PaysFee(Up[n])
          /\ UNCHANGED <<totals, charged, acctVars, queueVars, tokenVars, reqVars, effects>>
       \/ /\ PaysFee(Up[n])
          /\ AddFee(n, Up[n])
          /\ \/ /\ Expired(ev)
                /\ Refund(n, ev)
                /\ UNCHANGED <<acctVars, queueVars, tokenVars>>
             \/ /\ ~Expired(ev)
                /\ ev.kind = 1 /\ x = "none"
                /\ HandlePendingEvent(n, ev)
                /\ UNCHANGED <<errors, tokenVars, reqVars, effects>>
             \/ /\ ~Expired(ev)
                /\ ~(ev.kind = 1 /\ x = "none")
                /\ n \notin DOMAIN errors
                /\ errors' = Record(errors, n, [ev |-> ev, extra |-> x])
                /\ UNCHANGED <<acctVars, pending, tokenVars, reqVars, effects>>
    /\ UNCHANGED <<now, processes, regVars>>

\* Mutant: exec without its first block, so pending events never expire.
MutExec ==
    LET e == Min(DOMAIN errors) IN
    /\ Constructed
    /\ errors # <<>>
    /\ HandleEvent(e, errors[e].ev, errors[e].extra)
    /\ errors' = Erase(errors, e)
    /\ UNCHANGED <<pending, seqVars, now, processes, regVars, totals, charged>>

\* Mutant: exec refunds the expired pending event but does not erase it.
MutExecNoErase ==
    LET p == Min(DOMAIN pending)
        e == Min(DOMAIN errors)
    IN
    /\ Constructed
    /\ \/ /\ pending # <<>>
          /\ Expired(pending[p].ev)
          /\ Refund(p, pending[p].ev)
          /\ UNCHANGED <<acctVars, pending, errors, tokenVars>>
       \/ /\ pending # <<>> => ~Expired(pending[p].ev)
          /\ errors # <<>>
          /\ HandleEvent(e, errors[e].ev, errors[e].extra)
          /\ errors' = Erase(errors, e)
          /\ UNCHANGED pending
    /\ UNCHANGED <<seqVars, now, processes, regVars, totals, charged>>

\* exec(executor): expire the oldest pending event if it has expired;
\* otherwise handle the oldest error event and erase it.
Exec ==
    LET p == Min(DOMAIN pending)
        e == Min(DOMAIN errors)
    IN
    /\ Constructed
    /\ \/ /\ pending # <<>>
          /\ Expired(pending[p].ev)
          /\ Refund(p, pending[p].ev)
          /\ pending' = Erase(pending, p)
          /\ UNCHANGED <<acctVars, errors, tokenVars>>
       \/ /\ pending # <<>> => ~Expired(pending[p].ev)
          /\ errors # <<>>                           \* "error event not found!"
          /\ HandleEvent(e, errors[e].ev, errors[e].extra)
          /\ errors' = Erase(errors, e)
          /\ UNCHANGED pending
    /\ UNCHANGED <<seqVars, now, processes, regVars, totals, charged>>

\* Mutant: execpending handles the pending event but does not erase it.
MutExecPending(n, x) ==
    /\ Constructed
    /\ x # "none"
    /\ n \in DOMAIN pending
    /\ HandleEvent(n, pending[n].ev, x)
    /\ UNCHANGED <<seqVars, now, processes, regVars, totals, queueVars, charged>>

\* execpending(executor, nonce, origin_extra): handle the pending event
\* with the origin_extra supplied, and erase it.
ExecPending(n, x) ==
    /\ Constructed
    /\ x # "none"                                    \* origin_extra not empty
    /\ n \in DOMAIN pending
    /\ HandleEvent(n, pending[n].ev, x)
    /\ pending' = Erase(pending, n)
    /\ UNCHANGED <<seqVars, now, processes, regVars, totals, errors, charged>>

\* addasset(asset_id, symbol): emplace fails if the symbol has a row.
AddAsset(id, sym) ==
    /\ Constructed
    /\ sym \notin {r.sym : r \in assets}
    /\ assets' = assets \cup {[sym |-> sym, id |-> id]}
    /\ UNCHANGED <<seqVars, now, processes, fees, totals, acctVars, queueVars, tokenVars,
                   reqVars, effects, charged>>

\* removeasset(symbol): erase the row of the symbol (a missing one is a
\* no-op, i.e. stuttering).
RemoveAsset(sym) ==
    /\ Constructed
    /\ sym \in {r.sym : r \in assets}
    /\ assets' = {r \in assets : r.sym # sym}
    /\ UNCHANGED <<seqVars, now, processes, fees, totals, acctVars, queueVars, tokenVars,
                   reqVars, effects, charged>>

\* setfee(fee): the symbol must have a mixinassets row.
SetFee(sym, f) ==
    /\ Constructed
    /\ sym \in {r.sym : r \in assets}
    /\ fees' = [fees EXCEPT ![sym] = f]
    /\ UNCHANGED <<seqVars, now, processes, assets, totals, acctVars, queueVars, tokenVars,
                   reqVars, effects, charged>>

\* The chain's clock advances.
Tick ==
    /\ now < MaxTime
    /\ now' = now + 1
    /\ UNCHANGED <<processes, seqVars, regVars, totals, acctVars, queueVars, tokenVars,
                   reqVars, effects, charged>>

Next ==
    \/ \E p \in ProcessIds : Register(p)
    \/ Initialize
    \/ \E n \in Nonces, x \in Extras : OnEvent(n, x) \/ OnErrorEvent(n, x)
    \/ Exec
    \/ \E n \in Nonces, x \in Extras : ExecPending(n, x)
    \/ \E id \in AssetIds, sym \in Symbols : AddAsset(id, sym)
    \/ \E sym \in Symbols : RemoveAsset(sym)
    \/ \E sym \in Symbols, f \in Fees : SetFee(sym, f)
    \/ Tick

Spec == Init /\ [][Next]_vars

\* Anyone may call exec, and some operator keeps calling it; the chain's
\* clock keeps advancing.
FairSpec == Spec /\ WF_vars(Exec) /\ WF_vars(Tick)

(***************************************************************************)
(* Properties                                                              *)
(***************************************************************************)

\* However the relay submits and resubmits an event (onevent, onerrorevent,
\* in any order) and however often exec and execpending are called, the
\* outbound actions for one nonce come from at most one transaction: a
\* refund, or an issue and/or the forwarded instruction, never two of them
\* twice and never both a refund and an issue.
ResolvedAtMostOnce ==
    \A n \in Nonces :
        \/ Len(effects[n]) <= 1
        \/ /\ Len(effects[n]) = 2
           /\ effects[n][1].op = "issue" /\ effects[n][2].op = "forward"

\* Every account a user is bound to has been created: check_account binds
\* the name created one provisioning earlier (or by initialize), never the
\* one whose newaccount it sends itself, so a transfer to a bound account
\* never targets a missing account.
BoundAccountsCreated == Range(bind) \subseteq created

\* The amount issued for an event is the amount the MTG network signed less
\* the fee check_fee deducted when the event was admitted, whichever path
\* (onevent, exec of an error event, execpending) resolves it.
IssuedNetOfFee ==
    \A n \in Nonces : \A i \in 1..Len(effects[n]) :
        effects[n][i].op = "issue" => effects[n][i].amount = Up[n].amount - charged[n]

\* Every event parked in pendingevts or errorevents is eventually removed,
\* given that exec keeps being called and time passes (expired events are
\* refunded by exec).
DeferredDrain ==
    \A n \in Nonces :
        /\ n \in DOMAIN pending ~> n \notin DOMAIN pending
        /\ n \in DOMAIN errors ~> n \notin DOMAIN errors

\* Spec 4.4: provisioning returns the account pre-created before the call,
\* and step 9 issues the asset to it: a step that binds a new user issues
\* the event's asset to the account bound.
ProvisioningIssues ==
    [][\A u \in DOMAIN bind' \ DOMAIN bind :
          \E n \in Nonces : \E i \in Len(effects[n]) + 1..Len(effects'[n]) :
              effects'[n][i].op = "issue" /\ effects'[n][i].to = bind'[u]]_vars

\* Spec 4.3: an expired event is refunded with its original amount.
RefundsOriginalAmount ==
    \A n \in Nonces : \A i \in 1..Len(effects[n]) :
        effects[n][i].op = "refund" => effects[n][i].amount = Up[n].amount

\* Spec 4.6 step 9: when the event's asset id has no registered symbol,
\* processing soft-stops with no mint. So handle_event sends the forwarded
\* instruction of step 10 only after the issue for the same event.
ForwardOnlyAfterIssue ==
    \A n \in Nonces : \A i \in 1..Len(effects[n]) :
        effects[n][i].op = "forward" => \E j \in 1..i - 1 : effects[n][j].op = "issue"

\* Where an event stands: not admitted yet, parked in pendingevts or in
\* errorevents, or done (admitted and not parked).
Status(n) ==
    CASE n \in DOMAIN pending -> "pending"
      [] n \in DOMAIN errors -> "error"
      [] n < nonce \/ n \in submitted -> "done"
      [] OTHER -> "new"

\* Spec 4.6: an event goes from received to done directly or through one
\* deferred record, which only exec or execpending removes, and a done
\* event never comes back. Its outbound actions (refund, issue, forward)
\* are all sent in the one step that makes it done. So onevent,
\* onerrorevent, exec and execpending never act for an event that stays
\* parked, and never act again for one already done.
EventLifecycle ==
    [][\A n \in Nonces :
         /\ Status(n) = "done" => Status(n)' = "done"
         /\ Status(n) \in {"pending", "error"} => Status(n)' \in {Status(n), "done"}
         /\ effects'[n] # effects[n] => Status(n) # "done" /\ Status(n)' = "done"]_vars
=============================================================================
