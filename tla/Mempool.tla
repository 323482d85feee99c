------------------------------ MODULE Mempool -------------------------------
(***************************************************************************)
(* The Sequencer's app-side mempool (crates/astria-sequencer/src/mempool)  *)
(* and the CheckTx service in front of it (service/mempool).               *)
(*                                                                         *)
(* Checkers are CheckTx requests in flight: each reads a snapshot of the   *)
(* chain when it starts and inserts with what it read.  The consensus task *)
(* prepares proposals (removing failed transactions), commits blocks and   *)
(* then runs maintenance.  The pending and parked containers are locked    *)
(* together by every operation that changes them, so such an operation is  *)
(* one step; the removal cache and the tracked set are locked afterwards,  *)
(* when the containers are free again, and that is a step of its own.      *)
(*                                                                         *)
(* A transaction is [id, acct, nonce, cost]: its cost is what it spends of *)
(* the one asset modelled, fees apart.  A TimemarkedTransaction is         *)
(* [tx, cost]: the cost was computed when it was inserted, fees included.  *)
(* The clock is left out: whether TX_TTL has passed for the first entry of *)
(* a container is a choice that maintenance makes.                         *)
(***************************************************************************)
EXTENDS Naturals, Sequences, FiniteSets, FiniteSetsExt, SequencesExt, Functions

CONSTANTS
    Submitted,      \* the transactions that CometBFT may bring to CheckTx
    Checkers,       \* CheckTx requests that run concurrently
    Balances, Fees, \* values the chain's balances and fees may take
    MaxParkedPerAccount, \* MAX_PARKED_TXS_PER_ACCOUNT (15)
    MaxParked,      \* parked_max_tx_count
    CacheSize,      \* REMOVAL_CACHE_SIZE (50000)
    MaxBlocks,      \* bound: blocks committed
    MaxFailures     \* bound: transactions that fail in a proposal

Signers == {t.acct : t \in Submitted}

NoTx == [id |-> "none"]

ASSUME MempoolAssumption ==
    /\ IsFiniteSet(Submitted) /\ NoTx \notin Submitted
    /\ \A t \in Submitted : t.nonce \in Nat /\ t.cost \in Nat
    /\ Balances \subseteq Nat /\ Fees \subseteq Nat
    /\ MaxParkedPerAccount \in Nat /\ MaxParked \in Nat /\ MaxBlocks \in Nat
    /\ CacheSize \in Nat \ {0} /\ MaxFailures \in Nat

VARIABLES
    nonce, balance, fee,  \* the committed chain state
    pending, parked,      \* sets of TimemarkedTransaction
    cache, removeQueue,   \* comet_bft_removal_cache: its map's keys, its queue
    contained,            \* contained_txs
    dropped,              \* transactions whose promotion failed in insert
    check,                \* the CheckTx requests in flight
    consensus,            \* what the consensus task is doing
    blocks, failures

chain == <<nonce, balance, fee, blocks, failures>>
pool == <<pending, parked, dropped>>
removal == <<cache, removeQueue>>
mempoolVars == <<chain, pool, removal, contained, check, consensus>>

NoCheck == [pc |-> "idle", tx |-> NoTx, nonce |-> 0, balance |-> 0, cost |-> 0]
Idle == [pc |-> "idle", queue |-> {}, adds |-> << >>, drops |-> {}, recost |-> FALSE]

MempoolInit ==
    /\ nonce = [a \in Signers |-> 0]
    /\ balance \in [Signers -> Balances] /\ fee \in Fees /\ blocks = 0
    /\ pending = {} /\ parked = {} /\ dropped = {}
    /\ cache = {} /\ removeQueue = << >> /\ contained = {}
    /\ check = [c \in Checkers |-> NoCheck]
    /\ consensus = Idle /\ failures = 0

-----------------------------------------------------------------------------
(* Containers: operators on a set of TimemarkedTransaction.                *)

Of(C, a) == {e \in C : e.tx.acct = a}
Hashes(C) == {e.tx : e \in C}
SumCost(C) == SumFunction([e \in C |-> e.cost])
UpTo(C, e) == {d \in C : d.tx.nonce <= e.tx.nonce}
Pool == Hashes(pending) \cup Hashes(parked)

(* the entries of one account in the order of their nonces *)
ByNonce(C) ==
    [i \in 1..Cardinality(C) |->
        CHOOSE e \in C : Cardinality({d \in C : d.tx.nonce < e.tx.nonce}) = i - 1]

Removed(C) == [i \in 1..Cardinality(C) |-> ByNonce(C)[i].tx]

NonceTaken(C, e) == \E d \in Of(C, e.tx.acct) : d.tx.nonce = e.tx.nonce

AnyLaterNonce(P, e, n) == e.tx.nonce >= n

IsSequentialNoncePreconditionMet(P, e, n) ==
    \/ e.tx.nonce = n
    \/ \E d \in Of(P, e.tx.acct) : d.tx.nonce + 1 = e.tx.nonce

HasBalanceToCover(P, e, b) == SumCost(Of(P, e.tx.acct) \cup {e}) <= b

(* PendingTransactions::add and ParkedTransactions::add, to the outcomes   *)
(* that insert tells apart.                                                *)
AddPendingResult(P, e, n, b) ==
    IF e.tx.nonce < n \/ NonceTaken(P, e) THEN "rejected"
    ELSE IF ~IsSequentialNoncePreconditionMet(P, e, n) \/ ~HasBalanceToCover(P, e, b)
         THEN "park" ELSE "ok"

CanPark(K, e, n) ==
    /\ Cardinality(K) < MaxParked
    /\ Cardinality(Of(K, e.tx.acct)) < MaxParkedPerAccount
    /\ e.tx.nonce >= n /\ ~NonceTaken(K, e)

(* The front of parked that continues pending from target and is covered.  *)
FindPromotables(K, a, target, available) ==
    LET own == Of(K, a) IN
    {e \in own :
        /\ \A d \in own : d.tx.nonce >= target
        /\ \A n \in target..e.tx.nonce : \E d \in own : d.tx.nonce = n
        /\ SumCost(UpTo(own, e)) <= available}

(* What the balance no longer covers, counting from the lowest nonce.      *)
DemoteOneByOne(P, a, b) == {e \in Of(P, a) : e.cost > b}
FindDemotables(P, a, b) == {e \in Of(P, a) : SumCost(UpTo(Of(P, a), e)) > b}

SubtractContainedCosts(P, a, b) ==
    LET spent == SumCost(Of(P, a)) IN IF spent > b THEN 0 ELSE b - spent

AddPending(s, e, n, b) ==
    IF AddPendingResult(s.set, e, n, b) = "ok" THEN [s EXCEPT !.set = @ \cup {e}]
                                               ELSE [s EXCEPT !.failed = @ \cup {e.tx}]

AddParked(s, e, n) ==
    IF CanPark(s.set, e, n) THEN [s EXCEPT !.set = @ \cup {e}]
                            ELSE [s EXCEPT !.failed = @ \cup {e.tx}]

(* Move the entries of C into a container one after the other.             *)
AddAllPending(P, C, n, b) ==
    LET after[i \in 0..Cardinality(C)] ==
            IF i = 0 THEN [set |-> P, failed |-> {}]
                     ELSE AddPending(after[i - 1], ByNonce(C)[i], n, b) IN
    after[Cardinality(C)]

AddAllParked(K, C, n) ==
    LET after[i \in 0..Cardinality(C)] ==
            IF i = 0 THEN [set |-> K, failed |-> {}]
                     ELSE AddParked(after[i - 1], ByNonce(C)[i], n) IN
    after[Cardinality(C)]

-----------------------------------------------------------------------------
(* RemovalCache.                                                           *)

Evict(r) == [queue |-> Tail(r.queue), keys |-> r.keys \ {Head(r.queue)}]

CacheAdd(r, t) ==
    IF t \in r.keys THEN r
    ELSE LET room == IF Len(r.queue) = CacheSize THEN Evict(r) ELSE r
         IN  [queue |-> Append(room.queue, t), keys |-> room.keys \cup {t}]

CacheAddAll(seq) == FoldLeft(CacheAdd, [queue |-> removeQueue, keys |-> cache], seq)

-----------------------------------------------------------------------------
(* CheckTx.                                                                *)

Reply(c) == check' = [check EXCEPT ![c] = NoCheck]

(* A request arrives: handle_check_tx takes its snapshot and consults the  *)
(* removal cache.  CometBFT runs one CheckTx of a transaction at a time.   *)
CheckTx(c, t) ==
    /\ check[c].pc = "idle"
    /\ \A d \in Checkers : check[d].tx # t
    /\ IF t \in cache
       THEN /\ cache' = cache \ {t} /\ UNCHANGED removeQueue
            /\ Reply(c)
       ELSE /\ check' = [check EXCEPT ![c] =
                   [pc |-> "is_tracked", tx |-> t, nonce |-> nonce[t.acct],
                    balance |-> balance[t.acct], cost |-> t.cost + fee]]
            /\ UNCHANGED removal
    /\ UNCHANGED <<chain, pool, contained, consensus>>

NeverTracked(c) ==
    /\ check[c].pc = "is_tracked"
    /\ check' = [check EXCEPT ![c].pc = "insert"]
    /\ UNCHANGED <<chain, pool, removal, contained, consensus>>

IsTracked(c) ==
    /\ check[c].pc = "is_tracked"
    /\ IF check[c].tx \in contained THEN Reply(c)
       ELSE check' = [check EXCEPT ![c].pc = "insert"]
    /\ UNCHANGED <<chain, pool, removal, contained, consensus>>

Entry(c) == [tx |-> check[c].tx, cost |-> check[c].cost]

(* insert, the transaction fits pending: what it frees is promoted.  A     *)
(* promotion that fails has left parked already.                           *)
InsertPending(c) ==
    LET e == Entry(c)
        a == e.tx.acct
        n == check[c].nonce
        b == check[c].balance
        with == pending \cup {e}
        promoted == FindPromotables(parked, a, e.tx.nonce + 1,
                                    SubtractContainedCosts(with, a, b))
        added == AddAllPending(with, promoted, n, b) IN
    /\ check[c].pc = "insert"
    /\ AddPendingResult(pending, e, n, b) = "ok"
    /\ pending' = added.set
    /\ parked' = parked \ promoted
    /\ dropped' = dropped \cup added.failed
    /\ contained' = contained \cup {e.tx}
    /\ Reply(c)
    /\ UNCHANGED <<chain, removal, consensus>>

(* insert, the transaction is too early or not covered.                    *)
InsertParked(c) ==
    LET e == Entry(c) IN
    /\ check[c].pc = "insert"
    /\ AddPendingResult(pending, e, check[c].nonce, check[c].balance) = "park"
    /\ IF CanPark(parked, e, check[c].nonce)
       THEN /\ parked' = parked \cup {e}
            /\ contained' = contained \cup {e.tx}
            /\ Reply(c)
       ELSE /\ Reply(c)
            /\ UNCHANGED <<parked, contained>>
    /\ UNCHANGED <<chain, pending, dropped, removal, consensus>>

InsertRejected(c) ==
    /\ check[c].pc = "insert"
    /\ AddPendingResult(pending, Entry(c), check[c].nonce, check[c].balance) = "rejected"
    /\ Reply(c)
    /\ UNCHANGED <<chain, pool, removal, contained, consensus>>

-----------------------------------------------------------------------------
(* The consensus task: prepare_proposal and commit.                        *)

(* builder_queue: a copy of pending to execute.                            *)
BuilderQueue ==
    /\ consensus.pc = "idle" /\ pending # {}
    /\ consensus' = [consensus EXCEPT !.pc = "prepare", !.queue = Hashes(pending)]
    /\ UNCHANGED <<chain, pool, removal, contained, check>>

(* TransactionsContainer::remove: the entry with t's nonce and all above.  *)
Remove_(C, t) ==
    IF \E e \in Of(C, t.acct) : e.tx.nonce = t.nonce
    THEN {e \in Of(C, t.acct) : e.tx.nonce >= t.nonce} ELSE {}

(* remove_tx_invalid: transaction t of the queue failed for a reason other *)
(* than its nonce; those of its account that follow now fail on the nonce. *)
RemoveTxInvalid(t) ==
    LET fromPending == Remove_(pending, t)
        fromParked == IF fromPending = {} THEN Remove_(parked, t) ELSE Of(parked, t.acct)
        removed == Removed(fromPending) \o Removed(fromParked) IN
    /\ consensus.pc = "prepare" /\ t \in consensus.queue
    /\ failures < MaxFailures /\ failures' = failures + 1
    /\ pending' = pending \ fromPending
    /\ parked' = parked \ fromParked
    /\ LET left == {u \in consensus.queue : ~(u.acct = t.acct /\ u.nonce >= t.nonce)} IN
       consensus' =
           IF removed = << >> THEN [consensus EXCEPT !.queue = left]
           ELSE [consensus EXCEPT !.pc = "flush_invalid", !.queue = left,
                     !.adds = <<t>> \o removed, !.drops = ToSet(removed)]
    /\ UNCHANGED <<nonce, balance, fee, blocks, dropped, removal, contained, check>>

EndPrepare ==
    /\ consensus.pc = "prepare"
    /\ consensus' = Idle
    /\ UNCHANGED <<chain, pool, removal, contained, check>>

(* The block B is committed: of each account it executes transactions from *)
(* the account's nonce on.                                               *)
IsBlock(B) ==
    \A t \in B : /\ t.nonce >= nonce[t.acct]
                 /\ \A n \in nonce[t.acct]..t.nonce :
                        Cardinality({u \in B : u.acct = t.acct /\ u.nonce = n}) = 1

CommitBlock(B, newBalance, newFee) ==
    /\ consensus.pc = "idle" /\ blocks < MaxBlocks /\ IsBlock(B)
    /\ B = {} => newBalance # balance \/ newFee # fee
    /\ nonce' = [a \in Signers |-> nonce[a] + Cardinality({t \in B : t.acct = a})]
    /\ balance' = newBalance /\ fee' = newFee /\ blocks' = blocks + 1
    /\ consensus' = [Idle EXCEPT !.pc = "maintain", !.recost = (newFee # fee)]
    /\ UNCHANGED <<failures, pool, removal, contained, check>>

-----------------------------------------------------------------------------
(* run_maintenance.                                                        *)

Stale(C, a) == {e \in Of(C, a) : e.tx.nonce < nonce[a]}
Fresh(C, a) == Of(C, a) \ Stale(C, a)

(* clean_account_stale_expired: what is removed of account a, all of it if *)
(* the first entry that is not stale has expired.                          *)
Unclean(C, a, expired) == IF expired THEN Of(C, a) ELSE Stale(C, a)

RecostTransactions(C, a) ==
    IF consensus.recost
    THEN (C \ Of(C, a)) \cup {[e EXCEPT !.cost = e.tx.cost + fee] : e \in Of(C, a)}
    ELSE C

PendingNonce(P, a) ==
    IF Of(P, a) = {} THEN nonce[a] ELSE Max({e.tx.nonce : e \in Of(P, a)}) + 1

(* One account: clean, recost, then demote or else promote.  s collects    *)
(* the containers, the removed hashes and the moves that failed.           *)
MaintainAccount(s, a, expired) ==
    LET goneP == Unclean(s.pending, a, <<"pending", a>> \in expired)
        goneK == Unclean(s.parked, a, <<"parked", a>> \in expired)
        P == RecostTransactions(s.pending \ goneP, a)
        K == RecostTransactions(s.parked \ goneK, a)
        demoted == FindDemotables(P, a, balance[a])
        promoted == FindPromotables(K, a, PendingNonce(P, a),
                                    SubtractContainedCosts(P, a, balance[a]))
        down == AddAllParked(K, demoted, nonce[a])
        up == AddAllPending(P, promoted, nonce[a], balance[a])
    IN  [pending |-> IF demoted = {} THEN up.set ELSE P \ demoted,
         parked  |-> IF demoted = {} THEN K \ promoted ELSE down.set,
         failed  |-> s.failed \cup (IF demoted = {} THEN up.failed ELSE down.failed),
         removed |-> s.removed \o Removed(goneP) \o Removed(goneK)]

MaintainAccounts(order, expired) ==
    LET after[i \in 0..Len(order)] ==
            IF i = 0 THEN [pending |-> pending, parked |-> parked, failed |-> {}, removed |-> << >>]
                     ELSE MaintainAccount(after[i - 1], order[i], expired) IN
    after[Len(order)]

(* Both containers are locked while every account is visited, in no        *)
(* particular order; a move that fails is untracked at once.               *)
RunMaintenance ==
    /\ consensus.pc = "maintain"
    /\ \E order \in SetToSeqs(Signers), expired \in SUBSET ({"pending", "parked"} \X Signers) :
         LET s == MaintainAccounts(order, expired) IN
         /\ pending' = s.pending /\ parked' = s.parked
         /\ contained' = contained \ s.failed
         /\ consensus' = [consensus EXCEPT !.pc = "flush", !.adds = s.removed,
                                           !.drops = ToSet(s.removed)]
    /\ UNCHANGED <<chain, dropped, removal, check>>

(* The end of remove_tx_invalid and of run_maintenance: the removal cache  *)
(* and the tracked set are updated with both of their locks held.          *)
Flush ==
    /\ consensus.pc \in {"flush", "flush_invalid"}
    /\ LET r == CacheAddAll(consensus.adds) IN
       cache' = r.keys /\ removeQueue' = r.queue
    /\ contained' = contained \ consensus.drops
    /\ consensus' = IF consensus.pc = "flush" THEN Idle
                    ELSE [Idle EXCEPT !.pc = "prepare", !.queue = consensus.queue]
    /\ UNCHANGED <<chain, pool, check>>

Insert(c) == InsertPending(c) \/ InsertParked(c) \/ InsertRejected(c)

MempoolNext ==
    \/ \E c \in Checkers : (\E t \in Submitted : CheckTx(c, t)) \/ IsTracked(c) \/ Insert(c)
    \/ BuilderQueue \/ EndPrepare \/ RunMaintenance \/ Flush
    \/ \E t \in consensus.queue : RemoveTxInvalid(t)
    \/ \E B \in SUBSET Submitted, b \in [Signers -> Balances], f \in Fees : CommitBlock(B, b, f)

MempoolSpec == MempoolInit /\ [][MempoolNext]_mempoolVars

-----------------------------------------------------------------------------

(* Whatever snapshot an insertion used, the pending transactions that are  *)
(* not stale are numbered from the account's nonce on without gap or       *)
(* repetition, so all of them can be executed in order.                    *)
PendingExecutable ==
    \A a \in Signers :
        LET live == {e.tx.nonce : e \in Fresh(pending, a)} IN
        /\ live = nonce[a]..(nonce[a] + Cardinality(live) - 1)
        /\ Cardinality(Fresh(pending, a)) = Cardinality(live)

(* A transaction of the pool is in one container only and is tracked, so   *)
(* that a second CheckTx of it is answered without a second insertion; and *)
(* what is_tracked answers for is in the pool, or was removed and the      *)
(* removal is about to be recorded, or is one of those that insert lost in *)
(* a failed promotion.                                                     *)
TrackedMatchesPool ==
    /\ Hashes(pending) \cap Hashes(parked) = {}
    /\ Pool \subseteq contained
    /\ contained \subseteq Pool \cup consensus.drops \cup dropped

(* The pending transactions of an account are covered by its balance, all  *)
(* together, and none has a nonce that the chain has passed.               *)
PoolCovered ==
    \A a \in Signers : /\ SumCost(Of(pending, a)) <= balance[a]
                       /\ \A e \in Of(pending, a) : e.tx.nonce >= nonce[a]

(* Maintenance leaves in pending only what the new balance covers, and     *)
(* nothing whose nonce the chain has passed.                               *)
MaintenanceCovers == [][RunMaintenance => PoolCovered']_mempoolVars
=============================================================================
