------------------------------ MODULE Withdrawer ------------------------------
(***************************************************************************)
(* The bridge withdrawer (crates/astria-bridge-withdrawer): startup finds  *)
(* the rollup height to go on from in the last transaction of the bridge   *)
(* account, the watcher turns each rollup block into a batch of its        *)
(* withdrawals, and the submitter sends one transaction per batch.  The    *)
(* process keeps nothing on disk; a supervisor starts it again.            *)
(***************************************************************************)
EXTENDS Naturals, FiniteSets, Sequences, SequencesExt

CONSTANTS Busy,          \* the rollup heights with withdrawals
          MaxHeight,     \* the block that stands for all later, empty ones
          QueueSize,     \* BATCH_QUEUE_SIZE
          BridgeSigns,   \* the bridge account is its own withdrawer
          Faults         \* the kinds of faults, each happens at most once

ASSUME HeightAssumption == MaxHeight \in Nat \ {0} /\ Busy \subseteq 1..(MaxHeight - 1)

VARIABLES head,        \* of the rollup
          sequencer,   \* [executed: heights of batches, pending, wire: transactions]
          process,     \* [status, startup, pending, info]
          watcher,     \* [phase, next, current]
          queue,       \* of batches, by height
          submitter,   \* [phase, tx]
          faults       \* that have happened

vars == <<head, sequencer, process, watcher, queue, submitter, faults>>

Nonce == Len(sequencer.executed)

(* the pending nonce that the Sequencer's mempool reports *)
PendingNonce == Nonce + Cardinality(sequencer.pending)

NoTx == [height |-> 0, nonce |-> 0]

Fault(kind) == kind \in Faults \ faults /\ faults' = faults \cup {kind}

Running == process.status = "running"

-----------------------------------------------------------------------------
(* Startup *)

(* ensure_mempool_empty asks for the pending nonce first ... *)
ReadPendingNonce ==
    /\ Running /\ process.startup = "mempool"
    /\ process' = [process EXCEPT !.startup = "latest",
                                  !.pending = IF BridgeSigns THEN PendingNonce ELSE 0]
    /\ UNCHANGED <<head, sequencer, watcher, queue, submitter, faults>>

SkipMempool(latest) == TRUE

MempoolEmpty(latest) == process.pending = latest

(* ... and then for the latest one; wait_for_empty_mempool tries again *)
ReadLatestNonce ==
    /\ Running /\ process.startup = "latest"
    /\ LET latest == IF BridgeSigns THEN Nonce ELSE 0 IN
       process' = [process EXCEPT !.startup = IF MempoolEmpty(latest) THEN "height" ELSE "mempool"]
    /\ UNCHANGED <<head, sequencer, watcher, queue, submitter, faults>>

(* get_starting_rollup_height; the Sequencer stores the last transaction   *)
(* that a bridge account itself signed                                     *)
StartingRollupHeight ==
    IF BridgeSigns /\ sequencer.executed # << >> THEN Last(sequencer.executed) + 1 ELSE 1

GetStartingRollupHeight ==
    /\ Running /\ process.startup = "height"
    /\ process' = [process EXCEPT !.startup = "done", !.info = StartingRollupHeight]
    /\ UNCHANGED <<head, sequencer, watcher, queue, submitter, faults>>

(* The configuration does not fit, or the last transaction has no          *)
(* withdrawal.  BridgeWithdrawer::run polls the task only if it is None.   *)
StartupFails ==
    /\ Running /\ process.startup \notin {"done", "failed"}
    /\ process' = [process EXCEPT !.startup = "failed"]
    /\ Fault("startup")
    /\ UNCHANGED <<head, sequencer, watcher, queue, submitter>>

-----------------------------------------------------------------------------
(* Watcher *)

Subscribe ==
    /\ Running /\ process.startup = "done" /\ watcher.phase = "startup"
    /\ watcher' = [phase |-> "subscribed", next |-> process.info, current |-> head]
    /\ UNCHANGED <<head, sequencer, process, queue, submitter, faults>>

(* the first block of the subscription ends the range to sync *)
FirstBlock ==
    /\ Running /\ watcher.phase = "subscribed"
    /\ head > watcher.current \/ head = MaxHeight
    /\ watcher' = [watcher EXCEPT !.phase = "sync",
                                  !.current = IF @ = MaxHeight THEN @ ELSE @ + 1]
    /\ UNCHANGED <<head, sequencer, process, queue, submitter, faults>>

(* get_and_forward_block_events: a batch is sent also for an empty block *)
SendBatch ==
    /\ Len(queue) < QueueSize
    /\ queue' = Append(queue, watcher.next)
    /\ watcher' = [watcher EXCEPT !.next = @ + 1]

SyncUnprocessedRollupHeight ==
    /\ Running /\ watcher.phase = "sync" /\ watcher.next <= watcher.current
    /\ SendBatch
    /\ UNCHANGED <<head, sequencer, process, submitter, faults>>

Synced ==
    /\ Running /\ watcher.phase = "sync" /\ watcher.next > watcher.current
    /\ watcher' = [watcher EXCEPT !.phase = "watch", !.next = watcher.current + 1]
    /\ UNCHANGED <<head, sequencer, process, queue, submitter, faults>>

WatchForBlock ==
    /\ Running /\ watcher.phase = "watch" /\ watcher.next <= head
    /\ SendBatch
    /\ UNCHANGED <<head, sequencer, process, submitter, faults>>

-----------------------------------------------------------------------------
(* Submitter.  Once a batch is taken it is not stopped by the shutdown.    *)

Alive == process.status \in {"running", "stopping"}

SubmitterReady ==
    /\ Running /\ process.startup = "done" /\ submitter.phase = "startup"
    /\ submitter' = [submitter EXCEPT !.phase = "idle"]
    /\ UNCHANGED <<head, sequencer, process, watcher, queue, faults>>

(* an empty batch needs no transaction *)
TakeBatch ==
    /\ Running /\ submitter.phase = "idle" /\ queue # << >>
    /\ queue' = Tail(queue)
    /\ submitter' = IF Head(queue) \in Busy
                    THEN [phase |-> "nonce", tx |-> [NoTx EXCEPT !.height = Head(queue)]]
                    ELSE submitter
    /\ UNCHANGED <<head, sequencer, process, watcher, faults>>

GetPendingNonce ==
    /\ Alive /\ submitter.phase = "nonce"
    /\ submitter' = [phase |-> "send", tx |-> [submitter.tx EXCEPT !.nonce = PendingNonce]]
    /\ UNCHANGED <<head, sequencer, process, watcher, queue, faults>>

Included(tx) == tx.nonce < Nonce /\ sequencer.executed[tx.nonce + 1] = tx.height

(* CometBFT refuses a transaction that it has already *)
Known(tx) == tx \in sequencer.pending \/ Included(tx)

(* submit_tx: broadcast_tx_sync, again after an error *)
BroadcastTx ==
    /\ Alive /\ submitter.phase = "send" /\ ~Known(submitter.tx)
    /\ sequencer' = [sequencer EXCEPT !.wire = @ \cup {submitter.tx}]
    /\ submitter' = [submitter EXCEPT !.phase = "sent"]
    /\ UNCHANGED <<head, process, watcher, queue, faults>>

Stopping == [process EXCEPT !.status = "stopping"]

(* 1024 attempts have failed: the submitter halts, and with it the process *)
GiveUp ==
    /\ Alive /\ submitter.phase = "send" /\ Known(submitter.tx)
    /\ submitter' = [submitter EXCEPT !.phase = "halted"]
    /\ process' = Stopping
    /\ UNCHANGED <<head, sequencer, watcher, queue, faults>>

IgnoreRejection == /\ submitter' = [phase |-> "idle", tx |-> NoTx]
                   /\ UNCHANGED process

(* check_tx failed *)
HaltSubmitter == /\ submitter' = [submitter EXCEPT !.phase = "halted"]
                 /\ process' = Stopping

CheckTxFails ==
    /\ Alive /\ submitter.phase = "rejected"
    /\ HaltSubmitter
    /\ UNCHANGED <<head, sequencer, watcher, queue, faults>>

(* wait_for_tx_inclusion polls without end *)
TxIncluded ==
    /\ Alive /\ submitter.phase = "wait" /\ Included(submitter.tx)
    /\ submitter' = [phase |-> "idle", tx |-> NoTx]
    /\ UNCHANGED <<head, sequencer, process, watcher, queue, faults>>

-----------------------------------------------------------------------------
(* The Sequencer, the rollup and the network *)

NewBlock ==
    /\ head < MaxHeight
    /\ head' = head + 1
    /\ UNCHANGED <<sequencer, process, watcher, queue, submitter, faults>>

Awaits(tx) == Alive /\ submitter.phase = "sent" /\ submitter.tx = tx

(* what the awaited answer makes of the submitter *)
Answer(tx, phase) ==
    submitter' = IF Awaits(tx) THEN [submitter EXCEPT !.phase = phase] ELSE submitter

(* A nonce that is used or taken is refused, as is a transaction for a     *)
(* mempool that is full or a signer short of funds; the answer may be lost. *)
CheckTx(tx) ==
    LET ok == tx.nonce >= Nonce /\ \A other \in sequencer.pending : other.nonce # tx.nonce
        insert == [sequencer EXCEPT !.wire = @ \ {tx}, !.pending = IF ok THEN @ \cup {tx} ELSE @] IN
    /\ \/ sequencer' = insert /\ Answer(tx, IF ok THEN "wait" ELSE "rejected") /\ UNCHANGED faults
       \/ sequencer' = insert /\ Answer(tx, "send") /\ Fault("answer")
       \/ /\ sequencer' = [sequencer EXCEPT !.wire = @ \ {tx}]
          /\ Answer(tx, "rejected") /\ Fault("reject")
    /\ UNCHANGED <<head, process, watcher, queue>>

(* the call is lost *)
LoseCall(tx) ==
    /\ Fault("call")
    /\ sequencer' = [sequencer EXCEPT !.wire = @ \ {tx}]
    /\ Answer(tx, "send")
    /\ UNCHANGED <<head, process, watcher, queue>>

(* A transaction with a used withdrawal event fails, which removes it from *)
(* the mempool without a trace on the chain.                               *)
ExecuteTx(tx) ==
    /\ tx.nonce = Nonce
    /\ sequencer' = [sequencer EXCEPT !.pending = @ \ {tx},
                                      !.executed = IF tx.height \in Range(@) THEN @
                                                   ELSE Append(@, tx.height)]
    /\ UNCHANGED <<head, process, watcher, queue, submitter, faults>>

(* the mempool's time to live, TX_TTL, has passed *)
ExpireTx(tx) ==
    /\ Fault("expiry")
    /\ sequencer' = [sequencer EXCEPT !.pending = @ \ {tx}]
    /\ UNCHANGED <<head, process, watcher, queue, submitter>>

-----------------------------------------------------------------------------
(* The process *)

NewProcess == [status |-> "running", startup |-> "mempool", pending |-> 0, info |-> 0]
NewWatcher == [phase |-> "startup", next |-> 0, current |-> 0]
NewSubmitter == [phase |-> "startup", tx |-> NoTx]

(* SIGTERM, or the watcher or the API server has failed *)
Terminate ==
    /\ Running /\ Fault("stop")
    /\ process' = Stopping
    /\ UNCHANGED <<head, sequencer, watcher, queue, submitter>>

Crash ==
    /\ Running /\ Fault("crash")
    /\ process' = [process EXCEPT !.status = "killed"]
    /\ UNCHANGED <<head, sequencer, watcher, queue, submitter>>

(* Shutdown::run aborts a submitter that takes too long.  A call of the    *)
(* process may outlive it, until after the next start.                     *)
Shutdown ==
    /\ process.status \in {"stopping", "killed"}
    /\ process' = [process EXCEPT !.status = "down"]
    /\ \/ sequencer' = [sequencer EXCEPT !.wire = {}] /\ UNCHANGED faults
       \/ sequencer.wire # {} /\ UNCHANGED sequencer /\ Fault("delay")
    /\ UNCHANGED <<head, watcher, queue, submitter>>

Restart ==
    /\ process.status = "down"
    /\ process' = NewProcess /\ watcher' = NewWatcher /\ queue' = << >>
    /\ submitter' = NewSubmitter
    /\ UNCHANGED <<head, sequencer, faults>>

Init ==
    /\ head = 0 /\ queue = << >> /\ faults = {}
    /\ sequencer = [executed |-> << >>, pending |-> {}, wire |-> {}]
    /\ process = NewProcess /\ watcher = NewWatcher /\ submitter = NewSubmitter

Startup == ReadPendingNonce \/ ReadLatestNonce \/ GetStartingRollupHeight
Watch == Subscribe \/ FirstBlock \/ SyncUnprocessedRollupHeight \/ Synced \/ WatchForBlock
Submit == \/ SubmitterReady \/ TakeBatch \/ GetPendingNonce \/ BroadcastTx \/ GiveUp
          \/ CheckTxFails \/ TxIncluded

Next ==
    \/ Startup \/ StartupFails \/ Watch \/ Submit
    \/ NewBlock
    \/ \E tx \in sequencer.wire : CheckTx(tx) \/ LoseCall(tx)
    \/ \E tx \in sequencer.pending : ExecuteTx(tx) \/ ExpireTx(tx)
    \/ Terminate \/ Shutdown \/ Crash \/ Restart

Spec == Init /\ [][Next]_vars

(* The tasks run while the process does; the rollup and the Sequencer go   *)
(* on; the supervisor restarts the process.                                *)
FairSpec ==
    /\ Spec
    /\ WF_vars(Startup) /\ WF_vars(Watch) /\ WF_vars(Submit) /\ WF_vars(NewBlock)
    /\ WF_vars(\E tx \in sequencer.wire : CheckTx(tx))
    /\ WF_vars(\E tx \in sequencer.pending : ExecuteTx(tx))
    /\ WF_vars(Shutdown) /\ WF_vars(Restart)

-----------------------------------------------------------------------------
(* The batches that the Sequencer executed are those of the first blocks   *)
(* with withdrawals, in order and each once, whatever was lost, delayed or *)
(* restarted: startup goes on from the last one, so that a block that is   *)
(* overtaken would never be withdrawn (get_starting_rollup_height).        *)
NoWithdrawalSkipped ==
    LET executed == sequencer.executed IN
    \A k \in 1..Nonce :
        /\ executed[k] \in Busy
        /\ \A h \in Busy : h < executed[k] <=> \E j \in 1..(k - 1) : executed[j] = h

(* Every withdrawal is executed at last, unless startup has failed, or the *)
(* mempool or the network broke the assumptions of wait_for_tx_inclusion   *)
(* and wait_for_empty_mempool.                                             *)
EventuallyWithdrawn ==
    <>(Range(sequencer.executed) = Busy \/ faults \cap {"startup", "expiry", "delay"} # {})
===============================================================================
