-------------------------------- MODULE App ---------------------------------
(***************************************************************************)
(* The Sequencer application of one validator between CometBFT and its     *)
(* storage (crates/astria-sequencer/src/app, service/consensus.rs): blocks *)
(* are executed while they are prepared or processed, and FinalizeBlock    *)
(* uses what was executed if execution_state.rs finds it is the same       *)
(* block.  CometBFT runs several rounds per height, proposals of this and  *)
(* of other validators, and replays a decided block after a crash.         *)
(***************************************************************************)
EXTENDS Naturals, FiniteSets, Sequences, SequencesExt, Functions

CONSTANTS Txs,          \* transactions: [signer, nonce, group, data, act, arg]
          SudoAddress,  \* it signs the privileged actions and is paid the fees
          Pairs,        \* currency pairs of the oracle
          Validators,   \* that vote in CometBFT, one unit of power each
          Aspen,        \* activation height of the upgrade
          Genesis,      \* the state after init_chain
          MaxData,      \* MAX_SEQUENCE_DATA_BYTES_PER_BLOCK
          MaxTxBytes,   \* limit of CometBFT, in items
          Evidence,     \* sets of validators that CometBFT may report as byzantine
          MaxQueue, MaxHeight, MaxRound, MaxCrashes   \* bounds

VARIABLES storage,        \* the committed state
          interBlockState,
          executionState, \* ExecutionStateMachine
          recostMempool,
          writeBatch,     \* << >>, or << the state to commit, the response >>
          mempoolFee,     \* the fee at which the mempool has costed its transactions
          comet           \* CometBFT: [round, phase, proposals, block, crashes]

(* the accounts that the state knows *)
Holders == DOMAIN Genesis.nonce

(* the states of the chain in which the oracle knows the pairs P *)
Chains(P) ==
    [height : Nat, nonce : [Holders -> Nat], balance : [Holders -> Nat], fee : Nat,
     pairs : [P -> [nonce : Nat, price : Nat]], validators : SUBSET Validators,
     enableHeight : Nat, upgraded : BOOLEAN]

ASSUME AppAssumption ==
    /\ IsFiniteSet(Txs) /\ IsFiniteSet(Validators)
    /\ Aspen \in Nat /\ MaxTxBytes \in Nat /\ SudoAddress \in Holders
    /\ \A t \in Txs :
          /\ t.signer \in Holders /\ t.group \in Nat
          /\ t.act \in {"lock", "fee", "update", "add", "remove"}
          /\ t.act = "fee" => t.arg \in Nat
    /\ Genesis \in Chains(DOMAIN Genesis.pairs)
    /\ Genesis.enableHeight # 0 => Aspen <= Genesis.height   \* only the upgrade enables them

appVars == <<storage, interBlockState, executionState, recostMempool, writeBatch, mempoolFee, comet>>

Height == storage.height + 1

(* A state delta without writes; the rest of it is ephemeral storage. *)
Snapshot(c) == [chain |-> c, deposits |-> << >>, blockFees |-> 0, updates |-> {},
                results |-> << >>, post |-> << >>]

Unset == [tag |-> "Unset", block |-> << >>]

(* the extended commit info of a block: whether its bytes decode, the      *)
(* validators that it lists, those of them whose extensions it carries,    *)
(* the ids that these price, and the pairs to which it maps ids; an id     *)
(* goes by the name of its pair                                            *)
NoVotes == [present |-> FALSE, decodes |-> TRUE, listed |-> {}, voters |-> {}, ids |-> {},
            pairs |-> {}]
EmptyVotes == [NoVotes EXCEPT !.present = TRUE]
EmptyBytes == [EmptyVotes EXCEPT !.decodes = FALSE]

-----------------------------------------------------------------------------
(* Execution *)

(* sudo actions and validator updates are free *)
Fee(s, t) == IF t.act = "lock" THEN s.chain.fee ELSE 0

PayFee(s, t) ==
    [s EXCEPT !.chain.balance[t.signer] = @ - Fee(s, t), !.blockFees = @ + Fee(s, t)]

(* the actions, as far as blocks differ in them *)
Perform(s, t) ==
    CASE t.act = "lock"   -> [s EXCEPT !.deposits = Append(@, t.arg)]
      [] t.act = "fee"    -> [s EXCEPT !.chain.fee = t.arg]
      [] t.act = "update" -> [s EXCEPT !.chain.validators = @ \ {t.arg},
                                       !.updates = @ \cup {t.arg}]
      [] t.act = "add"    -> [s EXCEPT !.chain.pairs =
             IF t.arg \in DOMAIN @ THEN @ ELSE [p \in DOMAIN @ \cup {t.arg} |->
                  IF p = t.arg THEN [nonce |-> 0, price |-> 0] ELSE @[p]]]
      [] t.act = "remove" -> [s EXCEPT !.chain.pairs = Restrict(@, DOMAIN @ \ {t.arg})]

InvalidNonce(s, t) == t.nonce # s.chain.nonce[t.signer]

Executable(s, t) ==
    /\ ~InvalidNonce(s, t)
    /\ s.chain.balance[t.signer] >= Fee(s, t)
    /\ t.act \in {"fee", "update", "add", "remove"} => t.signer = SudoAddress
    /\ t.act = "update" => t.arg \in s.chain.validators /\ s.chain.validators # {t.arg}
    /\ t.act = "remove" => DOMAIN s.chain.pairs # {}

ExecuteTx(s, t) ==
    PayFee(Perform([s EXCEPT !.chain.nonce[t.signer] = @ + 1], t), t)

IsFeeAssetChange(t) == t.act = "feeAsset"

IsFeeChange(t) == t.act \in {"fee", "feeAsset"}

UpgradeDue(h) == h = Aspen

EnabledOnceSet(s, h) == s.chain.enableHeight # 0

VoteExtensionsEnabled(s, h) == s.chain.enableHeight # 0 /\ h > s.chain.enableHeight

(* the upgrade, the height, and the validators with evidence against them  *)
PreExecute(s, h, byzantine) ==
    [s EXCEPT !.chain.height = h, !.chain.validators = @ \ byzantine,
              !.chain.upgraded = @ \/ UpgradeDue(h),
              !.chain.pairs = IF UpgradeDue(h) THEN [p \in Pairs |-> [nonce |-> 0, price |-> 0]]
                                               ELSE @]

(* end_block pays the fees to the sudo address and hands the validator     *)
(* updates over; an upgrade changes the parameters.  The Sequencer block   *)
(* that is stored is not read by later blocks: it is kept in the result.   *)
PostExecute(s, b, results) ==
    LET enable == IF UpgradeDue(b.height) THEN b.height + 1 ELSE s.chain.enableHeight IN
    [s EXCEPT !.chain.balance[SudoAddress] = @ + s.blockFees, !.updates = {},
              !.chain.enableHeight = enable,
              !.post = <<[updates |-> s.updates, results |-> results, enable |-> enable,
                          block |-> b, deposits |-> s.deposits]>>]

(* an id that is not mapped is skipped *)
PricedPairs(v) == v.ids \cap v.pairs

(* put_price_for_currency_pair fails for a pair that is not in the state.  *)
CanApplyPrices(s, b) == PricedPairs(b.votes) \subseteq DOMAIN s.chain.pairs

ApplyPrices(s, b) ==
    [s EXCEPT !.chain.pairs = [p \in DOMAIN @ |->
        IF p \in PricedPairs(b.votes) THEN [nonce |-> @[p].nonce + 1, price |-> b.height] ELSE @[p]]]

-----------------------------------------------------------------------------
(* prepare_proposal *)

AllOk(txs) == [i \in 1..Len(txs) |-> "ok"]

(* The transactions a proposal includes, over proposal_checks_and_tx_      *)
(* execution for each of the queue; block is full: the rest is left out.   *)
Include(p, t) ==
    IF p.full \/ Len(p.txs) + p.items >= MaxTxBytes THEN [p EXCEPT !.full = TRUE]
    ELSE IF p.data + t.data > MaxData \/ t.group > p.group THEN p
    ELSE IF ~Executable(p.s, t) THEN [p EXCEPT !.group = t.group]
    ELSE [p EXCEPT !.s = ExecuteTx(@, t), !.txs = Append(@, t), !.group = t.group,
                   !.data = @ + t.data, !.recost = @ \/ IsFeeChange(t)]

Included(start, queue) ==
    LET after[i \in 0..Len(queue)] ==
            IF i = 0 THEN start ELSE Include(after[i - 1], queue[i]) IN
    after[Len(queue)]

(* validate_vote_extensions: keys of all voters, and more than 2/3 of the  *)
(* power that is listed                                                    *)
VotesValid(s, voters, listed) ==
    /\ voters \subseteq s.chain.validators
    /\ Cardinality(voters) >= (2 * Cardinality(listed)) \div 3 + 1

(* the mapping of get_id_to_currency_pair: ids that the state does not     *)
(* know are skipped                                                        *)
IdToCurrencyPair(s, ids) == ids \cap DOMAIN s.chain.pairs

PrunedVotes(s, voters, pairs, room) ==
    IF Cardinality(voters) > room THEN EmptyBytes
    ELSE [EmptyVotes EXCEPT !.listed = Validators, !.voters = voters, !.ids = pairs,
                            !.pairs = IdToCurrencyPair(s, pairs)]

(* ProposalHandler::prepare_proposal, empty if the votes are not valid;    *)
(* no bytes at all if they do not fit                                      *)
PreparedVotes(s, voters, pairs, room) ==
    CASE ~VotesValid(s, voters, Validators) -> EmptyVotes
      [] VotesValid(s, voters, Validators) /\ Cardinality(voters) > room -> EmptyBytes
      [] OTHER -> [EmptyVotes EXCEPT !.listed = Validators, !.voters = voters, !.ids = pairs,
                                     !.pairs = IdToCurrencyPair(s, pairs)]

(* the injected items, in units of one transaction: the commitments        *)
Commitments == 1

PreparedFrom(c, r) ==
    LET s0 == PreExecute(Snapshot(c), c.height + 1, r.byzantine)
        base == Commitments + IF UpgradeDue(c.height + 1) THEN 1 ELSE 0
        votes == IF VoteExtensionsEnabled(s0, c.height + 1)
                 THEN PreparedVotes(s0, r.voters, r.pairs, MaxTxBytes - base) ELSE NoVotes
        p == Included([s |-> s0, txs |-> << >>, group |-> 4, data |-> 0,
                       items |-> base + Cardinality(votes.voters),
                       full |-> FALSE, recost |-> FALSE], r.queue) IN
    [s |-> [p.s EXCEPT !.results = <<AllOk(p.txs)>>], recost |-> p.recost,
     block |-> [height |-> c.height + 1, byzantine |-> r.byzantine,
                txs |-> p.txs, deposits |-> p.s.deposits, votes |-> votes,
                changeHashes |-> UpgradeDue(c.height + 1)]]

-----------------------------------------------------------------------------
(* process_proposal *)

(* new_from_typed_data: the extended commit info must be there if and only *)
(* if vote extensions are enabled in the state at hand                     *)
Parses(s, b) ==
    b.votes.decodes /\ (b.votes.present <=> VoteExtensionsEnabled(s, b.height))

(* ProposalHandler::validate_proposal: votes of the validators that the    *)
(* last commit lists, and the mapping that the state gives                 *)
VotesAccepted(s, v) ==
    v.listed = {} \/ /\ v.listed = Validators
                     /\ VotesValid(s, v.voters, v.listed)
                     /\ v.pairs = IdToCurrencyPair(s, v.ids)

Check(p, t) ==
    IF ~p.ok \/ p.data + t.data > MaxData \/ t.group > p.group \/ ~Executable(p.s, t)
    THEN [p EXCEPT !.ok = FALSE]
    ELSE [p EXCEPT !.s = ExecuteTx(@, t), !.group = t.group, !.data = @ + t.data,
                   !.recost = @ \/ IsFeeChange(t)]

Checked(start, txs) ==
    LET after[i \in 0..Len(txs)] ==
            IF i = 0 THEN start ELSE Check(after[i - 1], txs[i]) IN
    after[Len(txs)]

(* The execution of a proposal of which nothing is cached, from the state  *)
(* after the reset: what is left in memory, and whether it is accepted.    *)
Processed(c, b) ==
    LET start == [s |-> Snapshot(c), group |-> 4, data |-> 0, ok |-> TRUE, recost |-> FALSE]
        s0 == PreExecute(Snapshot(c), b.height, b.byzantine)
        p == Checked([start EXCEPT !.s = s0], b.txs) IN
    CASE ~VotesAccepted(Snapshot(c), b.votes) -> [start EXCEPT !.ok = FALSE]
      [] VotesAccepted(Snapshot(c), b.votes) /\ b.changeHashes # UpgradeDue(b.height) ->
           [start EXCEPT !.ok = FALSE, !.s = s0]
      [] OTHER -> [p EXCEPT !.ok = @ /\ b.deposits = p.s.deposits]

(* any validator's verdict on a block it has not prepared itself *)
Valid(c, b) == Parses(Snapshot(c), b) /\ Processed(c, b).ok

-----------------------------------------------------------------------------
(* execution_state.rs *)

CheckIfPreparedProposal(b) ==
    IF executionState.tag \notin {"Prepared", "PreparedValid"} THEN executionState
    ELSE [executionState EXCEPT
            !.tag = IF executionState.block = b THEN "PreparedValid" ELSE "CheckedPreparedMismatch"]

CheckIfExecutedHeight(b) ==
    [executionState EXCEPT !.tag =
        CASE @ \in {"Prepared", "PreparedValid"} -> "CheckedPreparedMismatch"
          [] @ = "ExecutedBlock" /\ executionState.block.height # b.height ->
                "CheckedExecutedBlockMismatch"
          [] OTHER -> @]

CheckIfExecutedBlock(b) ==
    [executionState EXCEPT !.tag =
        CASE @ \in {"Prepared", "PreparedValid"} -> "CheckedPreparedMismatch"
          [] @ = "ExecutedBlock" /\ executionState.block # b -> "CheckedExecutedBlockMismatch"
          [] OTHER -> @]

ExecutedBlock(b) == [tag |-> "ExecutedBlock", block |-> b]

-----------------------------------------------------------------------------
(* The requests *)

AppInit ==
    /\ storage = Genesis /\ interBlockState = Snapshot(Genesis)
    /\ executionState = Unset /\ recostMempool = FALSE /\ writeBatch = << >>
    /\ mempoolFee = Genesis.fee
    /\ comet = [round |-> 0, phase |-> "rounds", proposals |-> {}, block |-> << >>,
                crashes |-> 0]

(* What CometBFT and the mempool may ask to be proposed in this round: the *)
(* queue is ordered by group and, within one, by the distance of the nonce *)
(* to the account's (TransactionPriority).                                 *)
Ordered(q) ==
    \A i, j \in 1..Len(q) : i < j =>
        \/ q[i].group > q[j].group
        \/ /\ q[i].group = q[j].group
           /\ q[i].nonce - storage.nonce[q[i].signer] <= q[j].nonce - storage.nonce[q[j].signer]

(* what the mempool may hold as pending: of every account one transaction  *)
(* per nonce, from the account's nonce on and without a gap                *)
Pending(T) ==
    /\ Cardinality(T) <= MaxQueue
    /\ \A t \in T :
         /\ t.nonce = storage.nonce[t.signer]
              \/ \E u \in T : u.signer = t.signer /\ u.nonce + 1 = t.nonce
         /\ \A u \in T : u.signer = t.signer /\ u.nonce = t.nonce => u = t

BuilderQueues ==
    {q \in UNION {SetToSeqs(S) : S \in {T \in SUBSET Txs : Pending(T)}} : Ordered(q)}

Requests ==
    [queue : BuilderQueues, pairs : {Pairs},
     voters : IF storage.enableHeight = 0 THEN {{}} ELSE {{}, Validators},
     byzantine : Evidence]

NextRound == comet.phase = "rounds" /\ comet.round < MaxRound /\ Height <= MaxHeight

Propose(b) == comet' = [comet EXCEPT !.round = @ + 1, !.proposals = @ \cup {b}]

PrepareProposal(r) ==
    /\ NextRound
    /\ LET p == PreparedFrom(storage, r) IN
       /\ interBlockState' = p.s
       /\ executionState' = [tag |-> "Prepared", block |-> p.block]
       /\ recostMempool' = p.recost
       /\ Propose(p.block)
    /\ UNCHANGED <<storage, writeBatch, mempoolFee>>

(* What a faulty proposer may send in place of a block. *)
Tampered(b) ==
    {[b EXCEPT !.txs = Reverse(@)], [b EXCEPT !.deposits = Append(@, "forged")],
     [b EXCEPT !.changeHashes = ~@], [b EXCEPT !.votes.present = ~@]}
    \cup UNION {{[b EXCEPT !.votes.pairs = Pairs],
                 [b EXCEPT !.votes.listed = {v}, !.votes.voters = {v}]} : v \in b.votes.voters}

(* another validator proposes *)
ForeignProposal(r) ==
    /\ NextRound
    /\ LET p == PreparedFrom(storage, r).block IN \E b \in {p} \cup Tampered(p) : Propose(b)
    /\ UNCHANGED <<storage, interBlockState, executionState, recostMempool, writeBatch, mempoolFee>>

(* the part of process_proposal that uses the execution of                 *)
(* prepare_proposal                                                        *)
ProcessPrepared(b) ==
    /\ Parses(interBlockState, b) /\ CheckIfPreparedProposal(b).tag = "PreparedValid"
    /\ interBlockState' = PostExecute(interBlockState, b, interBlockState.results[1])
    /\ executionState' = ExecutedBlock(b)
    /\ UNCHANGED recostMempool

(* the part that resets the state and executes *)
ProcessAfresh(b) ==
    /\ Parses(interBlockState, b) /\ CheckIfPreparedProposal(b).tag # "PreparedValid"
    /\ LET p == Processed(storage, b) IN
       /\ recostMempool' = IF VotesAccepted(Snapshot(storage), b.votes) THEN p.recost
                                                                       ELSE recostMempool
       /\ IF p.ok THEN /\ interBlockState' = PostExecute(p.s, b, AllOk(b.txs))
                       /\ executionState' = ExecutedBlock(b)
                  ELSE interBlockState' = p.s /\ executionState' = Unset

(* the data items do not parse: the state is neither reset nor used *)
ProcessUnparsed(b) ==
    /\ ~Parses(interBlockState, b)
    /\ executionState' = CheckIfPreparedProposal(b)
    /\ UNCHANGED <<interBlockState, recostMempool>>

ProcessProposal(b) ==
    /\ comet.phase = "rounds"
    /\ ProcessPrepared(b) \/ ProcessAfresh(b) \/ ProcessUnparsed(b)
    /\ UNCHANGED <<storage, writeBatch, mempoolFee, comet>>

(* two thirds of the validators have accepted the block *)
Decide(b) ==
    /\ comet.phase = "rounds" /\ Valid(storage, b)
    /\ comet' = [comet EXCEPT !.phase = "decided", !.block = b, !.proposals = {}]
    /\ UNCHANGED <<storage, interBlockState, executionState, recostMempool, writeBatch, mempoolFee>>

(* finalize_block's own execution: a transaction that fails is kept with   *)
(* an error as its result                                                  *)
Run(q, t) ==
    IF Executable(q.s, t)
    THEN [s |-> ExecuteTx(q.s, t), results |-> Append(q.results, "ok"),
          recost |-> q.recost \/ IsFeeChange(t)]
    ELSE [q EXCEPT !.results = Append(@, "err")]

RunAll(s, txs) ==
    LET after[i \in 0..Len(txs)] ==
            IF i = 0 THEN [s |-> s, results |-> << >>, recost |-> FALSE]
                     ELSE Run(after[i - 1], txs[i]) IN
    after[Len(txs)]

Replayed(s, b) ==
    LET p == RunAll(PreExecute(s, b.height, b.byzantine), b.txs) IN
    [s |-> PostExecute(p.s, b, p.results), recost |-> p.recost]

SkipExecution(b) == CheckIfExecutedBlock(b).tag = "ExecutedBlock"

(* The prices of the vote extensions are applied first, to a state that    *)
(* has executed the block already or not.                                  *)
Finalized(b) ==
    IF SkipExecution(b) THEN [s |-> ApplyPrices(interBlockState, b), recost |-> recostMempool]
    ELSE Replayed(ApplyPrices(Snapshot(storage), b), b)

CanFinalize(b) ==
    LET s == IF SkipExecution(b) THEN interBlockState ELSE Snapshot(storage) IN
    /\ Parses(s, b) /\ CanApplyPrices(s, b)
    /\ ~SkipExecution(b) => b.changeHashes = UpgradeDue(b.height)
    /\ SkipExecution(b) => interBlockState.post # << >>

(* finalize_block with prepare_commit, which leaves a state without writes *)
FinalizeBlock ==
    /\ comet.phase = "decided" /\ CanFinalize(comet.block)
    /\ LET f == Finalized(comet.block) IN
       /\ writeBatch' = <<f.s.chain, f.s.post[1]>>
       /\ recostMempool' = f.recost
    /\ interBlockState' = Snapshot(storage)
    /\ executionState' = ExecutedBlock(comet.block)
    /\ comet' = [comet EXCEPT !.phase = "finalized"]
    /\ UNCHANGED <<storage, mempoolFee>>

Commit ==
    /\ comet.phase = "finalized"
    /\ storage' = writeBatch[1] /\ writeBatch' = << >>
    /\ interBlockState' = Snapshot(storage') /\ executionState' = Unset
    /\ mempoolFee' = IF recostMempool THEN storage'.fee ELSE mempoolFee
    /\ comet' = [comet EXCEPT !.round = 0, !.phase = "rounds", !.block = << >>]
    /\ UNCHANGED recostMempool

(* App::new: the mempool is empty, CometBFT replays a block not committed  *)
NewApp ==
    /\ interBlockState' = Snapshot(storage) /\ executionState' = Unset
    /\ recostMempool' = FALSE /\ writeBatch' = << >> /\ mempoolFee' = storage.fee
    /\ UNCHANGED storage

Replay == IF comet.phase = "rounds" THEN "rounds" ELSE "decided"

(* The consensus service panics when finalize_block returns an error, and  *)
(* finalize_block itself when it does not find its results.  This ends the *)
(* service's task only: the process lives on, and answers no request of    *)
(* CometBFT's consensus.                                                   *)
Panic ==
    /\ comet.phase = "decided" /\ ~CanFinalize(comet.block)
    /\ comet' = [comet EXCEPT !.phase = "panicked"]
    /\ UNCHANGED <<storage, interBlockState, executionState, recostMempool, writeBatch, mempoolFee>>

(* the process ends and is started again; after a panic, only if somebody  *)
(* ends it                                                                 *)
Crash ==
    /\ comet.crashes < MaxCrashes
    /\ NewApp
    /\ comet' = [comet EXCEPT !.phase = Replay, !.crashes = @ + 1]

(* CometBFT restarts and the application does not *)
CometRestart ==
    /\ comet.phase = "finalized" /\ comet.crashes < MaxCrashes
    /\ comet' = [comet EXCEPT !.phase = Replay, !.crashes = @ + 1]
    /\ UNCHANGED <<storage, interBlockState, executionState, recostMempool, writeBatch, mempoolFee>>

AppNext ==
    \/ \E r \in Requests : PrepareProposal(r) \/ ForeignProposal(r)
    \/ \E b \in comet.proposals : ProcessProposal(b) \/ Decide(b)
    \/ FinalizeBlock \/ Commit \/ Panic \/ Crash \/ CometRestart

AppSpec == AppInit /\ [][AppNext]_appVars

(* CometBFT delivers what it has decided.  Nothing restarts a process of   *)
(* which the consensus task has panicked.                                  *)
AppFairness == WF_appVars(FinalizeBlock \/ Commit \/ Panic)

FairAppSpec == AppSpec /\ AppFairness

-----------------------------------------------------------------------------
(* a transaction of the block adds a currency pair that the block's votes  *)
(* price and that an earlier one of its transactions has removed           *)
PricesReadded(b) ==
    \E i, j \in 1..Len(b.txs) :
        /\ i < j /\ b.txs[i].act = "remove" /\ b.txs[j].act = "add"
        /\ b.txs[i].arg = b.txs[j].arg /\ b.txs[j].arg \in PricedPairs(b.votes)

(* Whatever was prepared, processed, rejected or replayed before, a        *)
(* finalized block leaves the state and the response that its execution    *)
(* alone gives on the committed state: validators agree on the app hash.   *)
(* Blocks that price a pair they remove and add again are excepted: the    *)
(* prices are applied to the new pair if the block was executed before,    *)
(* and to the old one if not.                                              *)
CachedEqualsReplayed ==
    writeBatch # << >> /\ ~PricesReadded(comet.block) =>
        LET r == Replayed(ApplyPrices(Snapshot(storage), comet.block), comet.block).s IN
        writeBatch = <<r.chain, r.post[1]>>

(* What this validator proposes, the others accept: the checks of          *)
(* prepare_proposal are at least as strict as those of process_proposal,   *)
(* although they are made on another state and with other limits.          *)
OwnProposalAccepted ==
    executionState.tag \in {"Prepared", "PreparedValid"} =>
        Valid(storage, executionState.block)

(* a transaction of the block removes a currency pair that its votes price *)
PricesRemoved(b) ==
    \E i \in 1..Len(b.txs) : b.txs[i].act = "remove" /\ b.txs[i].arg \in PricedPairs(b.votes)

(* The consensus task has panicked over a block that the application had   *)
(* executed before, and whose state it no longer holds because CometBFT    *)
(* has restarted alone, or in whose state the prices find no pair.         *)
PanickedOnExecuted ==
    /\ comet.phase = "panicked" /\ executionState = ExecutedBlock(comet.block)
    /\ writeBatch # << >> \/ PricesRemoved(comet.block)

(* A decided block is committed, also if the process crashes while it is   *)
(* finalized.  The exception is a panic over a block that was executed     *)
(* before; when the process is then restarted, it commits the block, since *)
(* it has executed nothing: no panic leaves a block that cannot be         *)
(* replayed.                                                               *)
DecidedIsCommitted == comet.phase = "decided" ~> comet.phase = "rounds" \/ PanickedOnExecuted

(* The mempool has costed its transactions with the committed fees: the    *)
(* recost flag set during execution belongs to the block that was          *)
(* committed.                                                              *)
MempoolCostsCurrent == mempoolFee = storage.fee
=============================================================================
