------------------------------- MODULE Ledger -------------------------------
(***************************************************************************)
(* The assets of the Sequencer (crates/astria-sequencer/src/               *)
(* action_handler, accounts, fees, bridge, ibc): transactions of several   *)
(* actions that move them between accounts, lock them in bridge accounts   *)
(* for a rollup and send them over an IBC channel, with refunds of packets *)
(* that fail.  The rollup and the counterparty chain are external.         *)
(***************************************************************************)
EXTENDS Naturals, FiniteSets, Sequences, Functions

CONSTANTS Accounts, Sudo,     \* Sudo receives the fees
          Native, Foreign,    \* the assets: of the Sequencer, of the counterparty
          Founders,           \* the accounts that may become bridge accounts
          Keys,               \* those that may be the sudo or the withdrawer of one
          Returns,            \* those that a withdrawal may name for its refund
          InitialBalance, InitialOutside,
          BaseFee,            \* of each action, in Native
          Amounts,            \* that are transferred or withdrawn
          MaxActions, MaxPackets, MaxEvents, MaxPaid, MaxUnbacked   \* bounds

ASSUME LedgerAssumption ==
    /\ IsFiniteSet(Accounts) /\ Sudo \in Accounts /\ Founders \subseteq Accounts
    /\ Keys \subseteq Accounts /\ Returns \subseteq Accounts
    /\ Native # Foreign /\ BaseFee \in Nat /\ Amounts \subseteq Nat \ {0}
    /\ InitialBalance \in [Accounts -> [{Native, Foreign} -> Nat]]
    /\ InitialOutside \in [{Native, Foreign} -> Nat] /\ InitialOutside[Native] = 0
    /\ MaxActions \in Nat

VARIABLES state,    \* [balance, bridges, used, deposits, fees, escrow, packets, sent],
                    \* and paid: what an account paid in fees as a bridge account
          rollup,   \* [supply, events]: per bridge account, and withdrawals
          outside,  \* [held, stranded]: what the counterparty's users hold of each
                    \* asset, and of those that were sent under their hash
          shortfall \* [lent, unbacked]: what the escrow paid for packets it got
                    \* nothing for, and the deposits that brought no funds

vars == <<state, rollup, outside, shortfall>>

Assets == {Native, Foreign}

(* how a withdrawal names its asset: by its trace, or as ibc/<hash> *)
Forms == {"trace", "ibc"}

Bridges(s) == DOMAIN s.bridges

Replayable(s, e) == TRUE

(* check_and_set_withdrawal_event_block_for_bridge_account *)
Unused(s, e) == <<e.bridge, e.id>> \notin s.used

Use(s, e) == [s EXCEPT !.used = @ \cup {<<e.bridge, e.id>>}]

-----------------------------------------------------------------------------
(* Balances *)

MoveFromSnapshot(s, from, to, asset, amount) ==
    [s EXCEPT !.balance[from][asset] = @ - amount,
              !.balance[to][asset] = s.balance[to][asset] + amount]

(* execute_transfer: the balance is read again for the increase *)
Move(s, from, to, asset, amount) ==
    LET paid == [s EXCEPT !.balance[from][asset] = @ - amount] IN
    [paid EXCEPT !.balance[to][asset] = @ + amount]

(* check_transfer: who may take from a bridge account, and its funds *)
MayTransfer(s, signer, from, asset, amount) ==
    /\ from \in Bridges(s) => signer = s.bridges[from].withdrawer
    /\ s.balance[from][asset] >= amount

Deposit(s, bridge, amount) == [s EXCEPT !.deposits[bridge] = @ + amount]

-----------------------------------------------------------------------------
(* The actions: check_and_execute gives <<the new state>>, or << >> if it  *)
(* fails                                                                   *)

Ensure(condition, s) == IF condition THEN <<s>> ELSE << >>

Transfer(s, signer, a) ==
    Ensure(/\ signer \notin Bridges(s)
           /\ MayTransfer(s, signer, signer, a.asset, a.amount),
           Move(s, signer, a.to, a.asset, a.amount))

(* execute_bridge_lock: the funds are the signer's *)
ExecuteBridgeLock(s, signer, to, asset, amount) ==
    Ensure(MayTransfer(s, signer, signer, asset, amount),
           Deposit(Move(s, signer, to, asset, amount), to, amount))

BridgeLock(s, signer, a) ==
    IF /\ signer \notin Bridges(s) /\ a.to \in Bridges(s)
       /\ s.bridges[a.to].asset = a.asset
    THEN ExecuteBridgeLock(s, signer, a.to, a.asset, a.amount) ELSE << >>

BridgeUnlock(s, signer, a) ==
    LET e == a.event[1]
        asset == s.bridges[e.bridge].asset IN
    Ensure(/\ e.bridge \in Bridges(s) /\ a.to \notin Bridges(s)
           /\ MayTransfer(s, signer, e.bridge, asset, e.amount)
           /\ Unused(s, e),
           Move(Use(s, e), e.bridge, a.to, asset, e.amount))

BridgeTransfer(s, signer, a) ==
    LET e == a.event[1] IN
    IF /\ {e.bridge, a.to} \subseteq Bridges(s)
       /\ s.bridges[e.bridge].asset = s.bridges[a.to].asset
       /\ Unused(s, e)
    THEN ExecuteBridgeLock(Use(s, e), signer, a.to, s.bridges[a.to].asset, e.amount) ELSE << >>

(* an address that an action may leave out: << >> or <<address>> *)
Optional(S) == {<< >>} \cup {<<x>> : x \in S}

OrElse(option, default) == IF option = << >> THEN default ELSE option[1]

InitBridgeAccount(s, signer, a) ==
    Ensure(signer \notin Bridges(s),
           [s EXCEPT !.bridges = [b \in DOMAIN @ \cup {signer} |->
               IF b = signer
               THEN [asset |-> a.asset, withdrawer |-> OrElse(a.withdrawer, signer),
                     sudo |-> OrElse(a.sudo, signer)]
               ELSE @[b]]])

BridgeSudoChange(s, signer, a) ==
    Ensure(a.to \in Bridges(s) /\ s.bridges[a.to].sudo = signer,
           [s EXCEPT !.bridges[a.to].sudo = OrElse(a.sudo, @),
                     !.bridges[a.to].withdrawer = OrElse(a.withdrawer, @)])

-----------------------------------------------------------------------------
(* Withdrawals over IBC *)

(* is_source of a withdrawal: an asset named by its hash has no trace *)
IsSource(asset, form) == form = "trace" /\ asset = Native

(* is_transfer_source_zone: with the counterparty's prefix it was ours *)
IsTransferSourceZone(asset) == asset = Native

NotFromHere(asset) == ~IsTransferSourceZone(asset)

(* is_refund_source_zone: the packet's asset is mapped to its trace first *)
IsRefundSourceZone(asset) == asset # Foreign

(* whether the action sets a bridge address *)
FromBridge(a) == a.event # << >>

(* establish_withdrawal_target *)
WithdrawalTarget(signer, a) == IF FromBridge(a) THEN a.event[1].bridge ELSE signer

MayWithdraw(s, signer, a) ==
    IF FromBridge(a)
    THEN a.event[1].bridge \in Bridges(s) /\ s.bridges[a.event[1].bridge].withdrawer = signer
    ELSE signer \notin Bridges(s)

(* The sender is the return address, any that the signer names.  Of the    *)
(* memo counts whether it parses as that of a rollup's withdrawal.         *)
Packet(s, a) ==
    [id |-> s.sent, asset |-> a.asset, form |-> a.form, amount |-> a.amount,
     sender |-> a.back, memo |-> a.memo]

Ics20Withdrawal(s, signer, a) ==
    LET from == WithdrawalTarget(signer, a) IN
    Ensure(/\ FromBridge(a) => Unused(s, a.event[1])
           /\ MayWithdraw(s, signer, a)
           /\ s.balance[from][a.asset] >= a.amount,
           [s EXCEPT !.balance[from][a.asset] = @ - a.amount,
                     !.used = IF FromBridge(a) THEN Use(s, a.event[1]).used ELSE @,
                     !.escrow[a.asset] = IF IsSource(a.asset, a.form) THEN @ + a.amount ELSE @,
                     !.packets = @ \cup {Packet(s, a)}, !.sent = @ + 1])

-----------------------------------------------------------------------------
(* Transactions *)

(* add_total_transfers_for_transaction: the amounts count against the      *)
(* signer, also where the bridge account will pay                          *)
Transferred(s, a) ==
    CASE a.kind \in {"transfer", "lock", "withdraw"} -> [asset |-> a.asset, amount |-> a.amount]
      [] a.kind \in {"unlock", "bridgeTransfer"} ->
           [asset |-> s.bridges[a.event[1].bridge].asset, amount |-> a.event[1].amount]
      [] OTHER -> [asset |-> Native, amount |-> 0]

KnownBridges(s, tx) ==
    \A i \in 1..Len(tx) : tx[i].kind \in {"unlock", "bridgeTransfer"} =>
        tx[i].event[1].bridge \in Bridges(s)

TotalCost(s, tx, asset) ==
    LET cost(a) == LET t == Transferred(s, a) IN
                   (IF t.asset = asset THEN t.amount ELSE 0)
                       + (IF asset = Native THEN BaseFee ELSE 0)
        sum[i \in 0..Len(tx)] == IF i = 0 THEN 0 ELSE sum[i - 1] + cost(tx[i]) IN
    sum[Len(tx)]

CoversTotalCost(s, signer, tx) ==
    /\ KnownBridges(s, tx)
    /\ \A asset \in Assets : s.balance[signer][asset] >= TotalCost(s, tx, asset)

PayFees(s, signer, isBridge) ==
    [s EXCEPT !.balance[signer][Native] = @ - BaseFee, !.fees = @ + BaseFee,
              !.paid[signer] = IF isBridge THEN @ + BaseFee ELSE @]

CheckAndExecute(s, signer, a) ==
    CASE a.kind = "transfer" -> Transfer(s, signer, a)
      [] a.kind = "lock" -> BridgeLock(s, signer, a)
      [] a.kind = "unlock" -> BridgeUnlock(s, signer, a)
      [] a.kind = "bridgeTransfer" -> BridgeTransfer(s, signer, a)
      [] a.kind = "withdraw" -> Ics20Withdrawal(s, signer, a)
      [] a.kind = "init" -> InitBridgeAccount(s, signer, a)
      [] a.kind = "bridgeSudo" -> BridgeSudoChange(s, signer, a)

(* check_execute_and_pay_fees *)
CheckExecuteAndPayFees(r, signer, a) ==
    LET result == IF r = << >> THEN r ELSE CheckAndExecute(r[1], signer, a) IN
    IF result = << >> THEN result
    ELSE Ensure(result[1].balance[signer][Native] >= BaseFee,
                PayFees(result[1], signer, signer \in Bridges(r[1])))

Executed(s, signer, tx) ==
    LET after[i \in 0..Len(tx)] ==
            IF i = 0 THEN <<s>> ELSE CheckExecuteAndPayFees(after[i - 1], signer, tx[i]) IN
    after[Len(tx)]

(* The actions sent by signer.  What a withdrawal from a bridge account    *)
(* takes is the withdrawer's word: here it is what the rollup's event      *)
(* says.  A bridge transfer takes the signer's funds, so the key of a      *)
(* bridge account signs one for its own events only.                       *)
OwnEvents(signer) ==
    {e \in rollup.events : signer \in Bridges(state) => e.bridge = signer}

Bundleable(signer) ==
         [kind : {"transfer", "lock"}, to : Accounts, asset : Assets, amount : Amounts]
    \cup [kind : {"withdraw"}, asset : Assets, form : Forms, amount : Amounts,
          back : Returns, memo : BOOLEAN, event : {<< >>}]
    \cup {[kind |-> "withdraw", asset |-> state.bridges[e.bridge].asset, form |-> form,
           amount |-> e.amount, back |-> back, memo |-> TRUE, event |-> <<e>>] :
             form \in Forms, back \in Returns, e \in rollup.events}
    \cup [kind : {"unlock"}, to : Accounts, event : {<<e>> : e \in rollup.events}]
    \cup [kind : {"bridgeTransfer"}, to : Accounts, event : {<<e>> : e \in OwnEvents(signer)}]

(* by their group, only alone in a transaction *)
Unbundleable(signer) ==
    [kind : IF signer \in Founders THEN {"init"} ELSE {}, asset : Assets,
     withdrawer : Optional(Keys), sudo : Optional(Keys)]
    \cup [kind : {"bridgeSudo"}, to : Accounts, withdrawer : Optional(Keys), sudo : Optional(Keys)]

(* none of whose actions alone is beyond the signer's balance *)
Transactions(signer) ==
    LET covered(A) == {a \in A : CoversTotalCost(state, signer, <<a>>)} IN
    (UNION {[1..n -> covered(Bundleable(signer))] : n \in 1..MaxActions})
        \cup [{1} -> covered(Unbundleable(signer))]

ExecuteTransaction(signer, tx) ==
    /\ CoversTotalCost(state, signer, tx)
    /\ LET r == Executed(state, signer, tx) IN
       /\ r # << >> /\ r[1].sent <= MaxPackets /\ r[1].paid[signer] <= MaxPaid
       /\ state' = r[1]
    /\ UNCHANGED <<rollup, outside, shortfall>>

(* end_block pays the fees out, and the block's deposits reach the rollup *)
EndBlock ==
    /\ state.fees > 0 \/ \E b \in Accounts : state.deposits[b] > 0
    /\ state' = [state EXCEPT !.balance[Sudo][Native] = @ + state.fees, !.fees = 0,
                              !.deposits = [b \in Accounts |-> 0]]
    /\ rollup' = [rollup EXCEPT !.supply = [b \in Accounts |-> @[b] + state.deposits[b]]]
    /\ UNCHANGED <<outside, shortfall>>

-----------------------------------------------------------------------------
(* IBC *)

(* emit_deposit: the bridge account must exist and take this asset *)
MayDeposit(s, bridge, asset) == bridge \in Bridges(s) /\ s.bridges[bridge].asset = asset

(* refund_tokens_check and refund_tokens, after a timeout or an error      *)
(* acknowledgement.  A refund is the rollup's if its memo says so.         *)
Refund(p) ==
    /\ IsRefundSourceZone(p.asset) => state.escrow[p.asset] >= p.amount
    /\ p.memo => MayDeposit(state, p.sender, p.asset)
    /\ LET s == IF p.memo THEN Deposit(state, p.sender, p.amount) ELSE state IN
       state' = [s EXCEPT !.balance[p.sender][p.asset] = @ + p.amount,
                          !.escrow[p.asset] = IF IsRefundSourceZone(p.asset) THEN @ - p.amount
                                                                             ELSE @,
                          !.packets = @ \ {p}]
    /\ shortfall' = [shortfall EXCEPT
           !.lent = IF IsRefundSourceZone(p.asset) /\ ~IsSource(p.asset, p.form)
                    THEN @ + p.amount ELSE @]
    /\ UNCHANGED <<rollup, outside>>

(* The counterparty takes the packet; its success changes nothing here.    *)
(* What it issues for an asset named by its hash has a denomination that   *)
(* parse_asset refuses, so it does not come back.                          *)
Delivered(p) ==
    /\ state' = [state EXCEPT !.packets = @ \ {p}]
    /\ outside' = IF p.form = "trace" THEN [outside EXCEPT !.held[p.asset] = @ + p.amount]
                                      ELSE [outside EXCEPT !.stranded[p.asset] = @ + p.amount]
    /\ UNCHANGED <<rollup, shortfall>>

(* receive_tokens.  An error is acknowledged and the counterparty refunds  *)
(* the sender, but what was written before the error is kept.              *)
RecvPacket(asset, amount, receiver) ==
    /\ outside.held[asset] >= amount
    /\ receiver \in Bridges(state) => MayDeposit(state, receiver, asset)
    /\ LET bridged == receiver \in Bridges(state)
           s == IF bridged THEN Deposit(state, receiver, amount) ELSE state IN
       IF IsTransferSourceZone(asset) /\ state.escrow[asset] < amount
       THEN /\ shortfall.unbacked[receiver] < MaxUnbacked
            /\ state' = s /\ UNCHANGED outside
            /\ shortfall' = [shortfall EXCEPT !.unbacked[receiver] = IF bridged THEN @ + amount ELSE @]
       ELSE /\ state' = [s EXCEPT !.escrow[asset] = IF IsTransferSourceZone(asset) THEN @ - amount ELSE @,
                                  !.balance[receiver][asset] = @ + amount]
            /\ outside' = [outside EXCEPT !.held[asset] = @ - amount]
            /\ UNCHANGED shortfall
    /\ UNCHANGED rollup

(* a user of the rollup withdraws: the rollup burns, and emits an event *)
RollupWithdraw(b, amount) ==
    /\ rollup.supply[b] >= amount /\ Cardinality(rollup.events) < MaxEvents
    /\ rollup' = [supply |-> [rollup.supply EXCEPT ![b] = @ - amount],
                  events |-> rollup.events \cup
                     {[bridge |-> b, id |-> Cardinality(rollup.events), amount |-> amount]}]
    /\ UNCHANGED <<state, outside, shortfall>>

-----------------------------------------------------------------------------

Init ==
    /\ state = [balance |-> InitialBalance, bridges |-> << >>, used |-> {},
                deposits |-> [b \in Accounts |-> 0], fees |-> 0, paid |-> [b \in Accounts |-> 0],
                escrow |-> [x \in Assets |-> 0], packets |-> {}, sent |-> 0]
    /\ rollup = [supply |-> [b \in Accounts |-> 0], events |-> {}]
    /\ outside = [held |-> InitialOutside, stranded |-> [x \in Assets |-> 0]]
    /\ shortfall = [lent |-> 0, unbacked |-> [b \in Accounts |-> 0]]

Next ==
    \/ \E signer \in Accounts : \E tx \in Transactions(signer) : ExecuteTransaction(signer, tx)
    \/ EndBlock
    \/ \E p \in state.packets : Refund(p) \/ Delivered(p)
    \/ \E asset \in Assets, amount \in Amounts, receiver \in Accounts :
        RecvPacket(asset, amount, receiver)
    \/ \E b \in Accounts, amount \in Amounts : RollupWithdraw(b, amount)

Spec == Init /\ [][Next]_vars

-----------------------------------------------------------------------------
(* the amounts of some packets or events together *)
Total(S) == SumFunction([x \in S |-> x.amount])

(* what is under way of an asset *)
InFlight(packets, asset) == Total({p \in packets : p.asset = asset})

(* what the accounts hold of an asset *)
Held(balance, asset) == SumFunction([x \in Accounts |-> balance[x][asset]])

(* those that name their asset by its trace *)
Traced(packets) == {p \in packets : p.form = "trace"}

(* the withdrawals of b's rollup that may still be paid out *)
Open(s, b) == {e \in rollup.events : e.bridge = b /\ Unused(s, e)}

(* No sequence of transactions, blocks and packets makes or loses an       *)
(* asset: what accounts hold, the fees of the block, the packets under way *)
(* and what the counterparty's users hold add up to what there was.        *)
(* (execute_transfer, check_and_pay_fees, end_block, refund_tokens and     *)
(* receive_tokens.)                                                        *)
AssetsConserved ==
    \A asset \in Assets :
        Held(state.balance, asset) + (IF asset = Native THEN state.fees ELSE 0)
            + InFlight(state.packets, asset) + outside.held[asset] + outside.stranded[asset]
        = Held(InitialBalance, asset) + InitialOutside[asset]

(* The escrow of the channel holds exactly what left of the Sequencer's    *)
(* own asset by its trace, under way or arrived, but for what it paid back *)
(* for withdrawals that named the asset by its hash and put nothing into   *)
(* it ("if we're the source, move tokens to the escrow account",           *)
(* impls/ics20_withdrawal.rs: is_source takes the hash for a foreign       *)
(* asset, refund_tokens does not).                                         *)
EscrowBacked ==
    state.escrow[Native] + shortfall.lent
        = InFlight(Traced(state.packets), Native) + outside.held[Native]

(* What the rollup of a bridge account issued or may still be paid out is  *)
(* covered by the account's balance: the deposits of the block, the        *)
(* rollup's supply, and its withdrawals that were not used, whoever signed *)
(* the withdrawals and wherever they are refunded to.  But for the fees    *)
(* that the account itself paid, and for the deposits of returns that the  *)
(* escrow could not pay, of which there are none as long as the escrow     *)
(* paid for nothing that it did not get.  (bridge_lock.rs,                 *)
(* bridge_unlock.rs, bridge_transfer.rs, ics20_withdrawal.rs,              *)
(* emit_deposit, receive_tokens.)                                          *)
BridgeSolvent ==
    /\ \A b \in Bridges(state) :
          LET asset == state.bridges[b].asset IN
          state.balance[b][asset] + (IF asset = Native THEN state.paid[b] ELSE 0)
                  + shortfall.unbacked[b]
              >= state.deposits[b] + rollup.supply[b] + Total(Open(state, b))
    /\ (\E b \in Accounts : shortfall.unbacked[b] > 0) => shortfall.lent > 0

=============================================================================
