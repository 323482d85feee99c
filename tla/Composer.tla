------------------------------- MODULE Composer -------------------------------
(***************************************************************************)
(* The composer (crates/astria-composer): the collector takes the pending  *)
(* transactions of a Geth rollup and sends them to the executor, which     *)
(* packs them into bundles and submits one bundle at a time, as a          *)
(* Sequencer transaction with the nonce it keeps for its account.  The     *)
(* rollup's transactions are 1, 2, ... in the order of their nonces.       *)
(***************************************************************************)
EXTENDS Naturals, Sequences, FiniteSets, SequencesExt

CONSTANTS Size,              \* of each rollup transaction
          MaxBytes,          \* max_bytes_per_bundle
          QueueCapacity,     \* bundle_queue_capacity
          ChannelCapacity,   \* of the channel to the executor
          Faults,            \* the kinds of faults, each happens at most once
          MaxFaults          \* in one behaviour

ASSUME CapacityAssumption == MaxBytes > 0 /\ QueueCapacity > 0 /\ ChannelCapacity > 0

VARIABLES arrived,      \* transactions 1..arrived are in the rollup's pool
          collector,    \* [phase, todo, next, existing]
          channel,      \* from the collector to the executor
          factory,      \* [current, finished, lost]: the lost are never reset
          executor,     \* [phase, nonce, drain]
          submission,   \* [phase, tx]: SubmitFut
          sequencer,    \* [executed, mempool, wire]: of the composer's account
          faults        \* that have happened

vars == <<arrived, collector, channel, factory, executor, submission, sequencer, faults>>

Fault(kind) ==
    /\ kind \in Faults \ faults /\ Cardinality(faults) < MaxFaults
    /\ faults' = faults \cup {kind}

Lose(txs) == factory' = [factory EXCEPT !.lost = @ \cup txs]

Nonce == Len(sequencer.executed)

(* the rollup transactions of some bundles *)
Txs(bundles) == UNION {ToSet(bundle) : bundle \in bundles}

Executed == Txs(ToSet(sequencer.executed))

NonceInMempool(n) == \E tx \in sequencer.mempool : tx.nonce = n

(* the pending nonce that the Sequencer's mempool reports *)
PendingNonce ==
    CHOOSE n \in Nonce..(Nonce + Cardinality(sequencer.mempool)) :
        ~NonceInMempool(n) /\ \A k \in Nonce..(n - 1) : NonceInMempool(k)

(* the transactions that wait for one with a lower nonce *)
Parked == {tx \in sequencer.mempool : tx.nonce > PendingNonce}

-----------------------------------------------------------------------------
(* The Geth collector *)

NoCollector == [phase |-> "off", todo |-> << >>, next |-> 0, existing |-> {}]

Open == executor.phase \in {"init", "run"}

NewTx ==
    /\ arrived < Len(Size)
    /\ arrived' = arrived + 1
    /\ UNCHANGED <<collector, channel, factory, executor, submission, sequencer, faults>>

(* the composer starts a collector again that has ended *)
Subscribe ==
    /\ Open /\ collector.phase = "off"
    /\ collector' = [collector EXCEPT !.phase = "subscribed", !.next = arrived + 1]
    /\ UNCHANGED <<arrived, channel, factory, executor, submission, sequencer, faults>>

(* What the rollup has executed has left its pool; it executes in the order *)
(* of the nonces, some time after the Sequencer.                            *)
TxpoolContent ==
    /\ Open /\ collector.phase = "subscribed"
    /\ \E settled \in 0..arrived :
        /\ 1..settled \subseteq Executed
        /\ collector' = [collector EXCEPT
               !.phase = "run",
               !.todo = [i \in 1..(arrived - settled) |-> settled + i],
               !.existing = (settled + 1)..arrived]
    /\ UNCHANGED <<arrived, channel, factory, executor, submission, sequencer, faults>>

(* forward_geth_tx: sent, or dropped after EXECUTOR_SEND_TIMEOUT.  A       *)
(* transaction that waits for room in the channel is still in the stream.  *)
ForwardTx(t) ==
    \/ /\ Len(channel) < ChannelCapacity
       /\ channel' = Append(channel, t)
       /\ UNCHANGED <<factory, faults>>
    \/ /\ Len(channel) = ChannelCapacity /\ Fault("send timeout")
       /\ Lose({t})
       /\ UNCHANGED channel

(* the existing transactions, then those of the subscription that were not *)
(* among them                                                              *)
NextTx ==
    /\ Open /\ collector.phase = "run"
    /\ \/ /\ collector.todo # << >>
          /\ ForwardTx(Head(collector.todo))
          /\ collector' = [collector EXCEPT !.todo = Tail(@)]
       \/ /\ collector.todo = << >> /\ collector.next <= arrived
          /\ IF collector.next \in collector.existing
             THEN UNCHANGED <<channel, factory, faults>>
             ELSE ForwardTx(collector.next)
          /\ collector' = [collector EXCEPT !.next = @ + 1]
    /\ UNCHANGED <<arrived, executor, submission, sequencer>>

StreamEnds ==
    /\ Open /\ collector.phase = "run"
    /\ Fault("stream")
    /\ collector' = NoCollector
    /\ UNCHANGED <<arrived, channel, factory, executor, submission, sequencer>>

-----------------------------------------------------------------------------
(* The bundle factory *)

Bytes(bundle) == FoldLeft(LAMBDA sum, t : sum + Size[t], 0, bundle)

IsFull == Len(factory.finished) >= QueueCapacity

(* BundleFactory::try_push; bundle_seq_action drops what it refuses *)
TryPush(f, t) ==
    IF Bytes(f.current) + Size[t] <= MaxBytes
    THEN [f EXCEPT !.current = Append(@, t)]
    ELSE IF Size[t] > MaxBytes \/ Len(f.finished) >= QueueCapacity
    THEN [f EXCEPT !.lost = @ \cup {t}]
    ELSE [f EXCEPT !.finished = Append(@, f.current), !.current = <<t>>]

PopCurrentFirst(f) ==
    IF f.current = << >> THEN f.finished ELSE <<f.current>> \o f.finished

(* pop_now until nothing is left: the finished ones, then the current one *)
PopAll(f) ==
    IF f.current = << >> THEN f.finished ELSE Append(f.finished, f.current)

Emptied(f) == [f EXCEPT !.current = << >>, !.finished = << >>]

(* the factory after the first n transactions of the channel *)
Received[n \in 0..Len(channel)] ==
    IF n = 0 THEN factory ELSE TryPush(Received[n - 1], channel[n])

-----------------------------------------------------------------------------
(* The executor's loop *)

NoSubmission == [phase |-> "none", tx |-> [nonce |-> 0, bundle |-> << >>]]

SubmitBundle(bundle) ==
    submission' = [phase |-> "send", tx |-> [nonce |-> executor.nonce, bundle |-> bundle]]

Idle == submission.phase = "none"

InitExecutor ==
    /\ executor.phase = "init"
    /\ executor' = [executor EXCEPT !.phase = "run", !.nonce = PendingNonce]
    /\ UNCHANGED <<arrived, collector, channel, factory, submission, sequencer, faults>>

NextFinished ==
    /\ executor.phase = "run" /\ Idle /\ factory.finished # << >>
    /\ SubmitBundle(Head(factory.finished))
    /\ factory' = [factory EXCEPT !.finished = Tail(@)]
    /\ UNCHANGED <<arrived, collector, channel, executor, sequencer, faults>>

(* next_finished comes before recv in the biased select *)
RecvTx ==
    /\ executor.phase = "run" /\ channel # << >> /\ ~IsFull
    /\ ~(Idle /\ factory.finished # << >>)
    /\ factory' = TryPush(factory, Head(channel))
    /\ channel' = Tail(channel)
    /\ UNCHANGED <<arrived, collector, executor, submission, sequencer, faults>>

(* the timer preempts the current bundle: pop_now, when next_finished,     *)
(* which is tried first, has found no finished bundle                      *)
BlockTimer ==
    /\ executor.phase = "run" /\ Idle
    /\ factory.finished = << >> /\ factory.current # << >>
    /\ SubmitBundle(factory.current)
    /\ factory' = Emptied(factory)
    /\ UNCHANGED <<arrived, collector, channel, executor, sequencer, faults>>

-----------------------------------------------------------------------------
(* SubmitFut *)

Active == executor.phase \in {"run", "drain"}

(* the executor ends and with it the process *)
EndExecutor ==
    /\ executor' = [phase |-> "closed", nonce |-> 0, drain |-> << >>]
    /\ submission' = NoSubmission

(* CometBFT refuses a transaction that it has already *)
Known(tx) ==
    \/ tx \in sequencer.mempool
    \/ tx.nonce < Nonce /\ sequencer.executed[tx.nonce + 1] = tx.bundle

BroadcastTx ==
    /\ Active /\ submission.phase = "send" /\ ~Known(submission.tx)
    /\ sequencer' = [sequencer EXCEPT !.wire = @ \cup {submission.tx}]
    /\ submission' = [submission EXCEPT !.phase = "sent"]
    /\ UNCHANGED <<arrived, collector, channel, factory, executor, faults>>

(* submit_tx and get_pending_nonce fail after 1024 attempts *)
GiveUp ==
    /\ Active
    /\ \/ submission.phase = "send" /\ Known(submission.tx) /\ UNCHANGED faults
       \/ submission.phase \in {"send", "nonce"} /\ Fault("unreachable")
    /\ EndExecutor
    /\ UNCHANGED <<arrived, collector, channel, factory, sequencer>>

GetPendingNonce ==
    /\ Active /\ submission.phase = "nonce"
    /\ submission' = [phase |-> "send", tx |-> [submission.tx EXCEPT !.nonce = PendingNonce]]
    /\ UNCHANGED <<arrived, collector, channel, factory, executor, sequencer, faults>>

AnsweredWithoutRefetch(code) ==
    /\ submission' = NoSubmission
    /\ executor' = [executor EXCEPT !.nonce = submission.tx.nonce + IF code = "ok" THEN 1 ELSE 0]
    /\ IF code = "rejected" THEN Lose(ToSet(submission.tx.bundle)) ELSE UNCHANGED factory

(* what the code in the answer does: INVALID_NONCE and NONCE_TAKEN fetch a *)
(* new nonce, any other error loses the bundle                             *)
Answered(code) ==
    /\ submission' = IF code = "nonce" THEN [submission EXCEPT !.phase = "nonce"]
                                       ELSE NoSubmission
    /\ executor' = IF code = "nonce" THEN executor
                   ELSE [executor EXCEPT !.nonce = submission.tx.nonce + IF code = "ok" THEN 1 ELSE 0]
    /\ IF code = "rejected" THEN Lose(ToSet(submission.tx.bundle)) ELSE UNCHANGED factory

-----------------------------------------------------------------------------
(* The Sequencer.  CheckTx takes a nonce that is not yet used, also one    *)
(* ahead of the account's, and answers the call if the composer waits.     *)

Awaits(tx) == Active /\ submission = [phase |-> "sent", tx |-> tx]

Answer(tx, code) ==
    IF Awaits(tx) THEN Answered(code) ELSE UNCHANGED <<submission, executor, factory>>

CheckTx ==
    \E tx \in sequencer.wire :
        LET used == tx.nonce < Nonce \/ NonceInMempool(tx.nonce) IN
        /\ \/ /\ ~used
              /\ sequencer' = [sequencer EXCEPT !.wire = @ \ {tx}, !.mempool = @ \cup {tx}]
              /\ Answer(tx, "ok") /\ UNCHANGED faults
           \/ /\ used
              /\ sequencer' = [sequencer EXCEPT !.wire = @ \ {tx}]
              /\ Answer(tx, "nonce") /\ UNCHANGED faults
           \/ /\ ~used /\ Fault("reject")
              /\ sequencer' = [sequencer EXCEPT !.wire = @ \ {tx}]
              /\ Answer(tx, "rejected")
        /\ UNCHANGED <<arrived, collector, channel>>

(* the answer is lost, or comes too late *)
LoseAnswer ==
    /\ Active /\ submission.phase = "sent"
    /\ Fault("answer")
    /\ submission' = [submission EXCEPT !.phase = "send"]
    /\ UNCHANGED <<arrived, collector, channel, factory, executor, sequencer>>

ExecuteTx ==
    \E tx \in sequencer.mempool :
        /\ tx.nonce = Nonce
        /\ sequencer' = [sequencer EXCEPT !.executed = Append(@, tx.bundle), !.mempool = @ \ {tx}]
        /\ UNCHANGED <<arrived, collector, channel, factory, executor, submission, faults>>

(* The mempool removes a transaction that fails in a proposal, with all    *)
(* that have higher nonces, or one that has expired, with the others that  *)
(* are pending, or parked, like it.  The composer is not told.             *)
RemoveTx ==
    /\ Fault("removal")
    /\ \E gone \in {{u \in sequencer.mempool : u.nonce >= tx.nonce} : tx \in sequencer.mempool}
                   \cup {Parked, sequencer.mempool \ Parked} :
        /\ gone # {}
        /\ sequencer' = [sequencer EXCEPT !.mempool = @ \ gone]
        /\ Lose(Txs({tx.bundle : tx \in gone}))
    /\ UNCHANGED <<arrived, collector, channel, executor, submission>>

(* someone else uses the composer's account *)
ForeignTx ==
    /\ Fault("foreign")
    /\ sequencer' = [sequencer EXCEPT !.mempool = @ \cup {[nonce |-> PendingNonce, bundle |-> << >>]}]
    /\ UNCHANGED <<arrived, collector, channel, factory, executor, submission>>

-----------------------------------------------------------------------------
(* The process *)

(* SIGTERM: the channel is closed and drained into bundles; before the     *)
(* loop there is nothing to drain.  The collector ends as well.            *)
Shutdown ==
    /\ Open /\ Fault("stop")
    /\ IF executor.phase = "init"
       THEN EndExecutor /\ UNCHANGED <<channel, factory>>
       ELSE LET f == Received[Len(channel)] IN
            /\ executor' = [executor EXCEPT !.phase = "drain", !.drain = PopAll(f)]
            /\ factory' = Emptied(f)
            /\ channel' = << >>
            /\ UNCHANGED submission
    /\ collector' = NoCollector
    /\ UNCHANGED <<arrived, sequencer>>

(* run_shutdown_logic, after the last submission *)
DrainBundle ==
    /\ executor.phase = "drain" /\ Idle /\ executor.drain # << >>
    /\ SubmitBundle(Head(executor.drain))
    /\ executor' = [executor EXCEPT !.drain = Tail(@)]
    /\ UNCHANGED <<arrived, collector, channel, factory, sequencer, faults>>

(* all is drained, or BUNDLE_DRAINING_DURATION is over *)
EndDrain ==
    /\ executor.phase = "drain"
    /\ \/ Idle /\ executor.drain = << >> /\ UNCHANGED faults
       \/ Fault("drain timeout")
    /\ EndExecutor
    /\ UNCHANGED <<arrived, collector, channel, factory, sequencer>>

Crash ==
    /\ executor.phase # "closed" /\ Fault("crash")
    /\ EndExecutor
    /\ UNCHANGED <<arrived, collector, channel, factory, sequencer>>

(* a new process, with nothing of the old one *)
Restart ==
    /\ executor.phase = "closed"
    /\ executor' = [executor EXCEPT !.phase = "init"]
    /\ collector' = NoCollector
    /\ channel' = << >>
    /\ factory' = Emptied(factory)
    /\ UNCHANGED <<arrived, submission, sequencer, faults>>

-----------------------------------------------------------------------------
Init ==
    /\ arrived = 0 /\ channel = << >> /\ faults = {}
    /\ collector = NoCollector
    /\ factory = [current |-> << >>, finished |-> << >>, lost |-> {}]
    /\ executor = [phase |-> "init", nonce |-> 0, drain |-> << >>]
    /\ submission = NoSubmission
    /\ sequencer = [executed |-> << >>, mempool |-> {}, wire |-> {}]

Collect == Subscribe \/ TxpoolContent \/ NextTx

Run == InitExecutor \/ NextFinished \/ RecvTx \/ DrainBundle \/ EndDrain \/ Restart

Submit == BroadcastTx \/ GetPendingNonce \/ GiveUp

Disturb == StreamEnds \/ LoseAnswer \/ RemoveTx \/ ForeignTx \/ Shutdown \/ Crash

Next ==
    \/ NewTx \/ Collect \/ Run \/ BlockTimer \/ Submit
    \/ CheckTx \/ ExecuteTx \/ Disturb

Spec == Init /\ [][Next]_vars

(* Each task goes on, the timer runs out, and the Sequencer answers and     *)
(* makes blocks.                                                            *)
FairSpec ==
    /\ Spec
    /\ WF_vars(Collect) /\ WF_vars(Run) /\ WF_vars(BlockTimer) /\ WF_vars(Submit)
    /\ WF_vars(CheckTx) /\ WF_vars(ExecuteTx)

-----------------------------------------------------------------------------
(* the transactions of txs follow all those with lower nonces: these are   *)
(* in before or come earlier in txs                                        *)
InOrder(txs, before) ==
    \A i \in DOMAIN txs : \A t \in 1..(txs[i] - 1) :
        t \in before \/ \E j \in 1..(i - 1) : txs[j] = t

BundlesInOrder(bundles, before) ==
    \A k \in DOMAIN bundles :
        InOrder(bundles[k], before \cup Txs({bundles[l] : l \in 1..(k - 1)}))

(* A rollup transaction reaches the Sequencer's chain only after all those  *)
(* with lower nonces, unless they were dropped: neither the timer, a        *)
(* shutdown, a resubmission under another nonce nor a restart with          *)
(* transactions still under way changes their order.                        *)
ExecutedInOrder == BundlesInOrder(sequencer.executed, factory.lost)

(* the Sequencer has removed a transaction, and t waits in its mempool for *)
(* a nonce that nobody will use: the executor goes on with its own count   *)
StrandedBehindRemoval(t) ==
    "removal" \in faults /\ t \in Txs({tx.bundle : tx \in Parked})

(* Every transaction of the rollup's pool is executed in the end, unless   *)
(* it was dropped, by the composer or by the Sequencer's mempool, or is    *)
(* stranded behind one that the mempool has dropped.                       *)
EventuallyExecuted ==
    \A t \in DOMAIN Size :
        t <= arrived ~> t \in Executed \cup factory.lost \/ StrandedBehindRemoval(t)
=============================================================================
