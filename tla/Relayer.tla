------------------------------ MODULE Relayer -------------------------------
(***************************************************************************)
(* Sequencer Relayer (crates/astria-sequencer-relayer/src/relayer): it     *)
(* reads Sequencer blocks in order (read.rs), batches them (write/         *)
(* conversion.rs) and submits one batch at a time to Celestia (write/      *)
(* mod.rs, celestia_client), keeping a submission-state file on disk       *)
(* (submission.rs) from which it resumes after a shutdown or a crash.      *)
(*                                                                         *)
(* A batch is the set of its Sequencer heights.  A blob transaction is     *)
(* [nonce, heights, fee]: two attempts at the same batch have the same     *)
(* hash only if the account's nonce and the fee are the same.  A           *)
(* transaction may be included with an error code: it uses up its nonce    *)
(* and posts nothing.  Celestia's heights are counted by the transactions  *)
(* that succeed: the n-th one has height n.                                *)
(***************************************************************************)
EXTENDS Naturals, Sequences, FiniteSets, FiniteSetsExt

CONSTANTS
    LastHeight,   \* bound: height of the newest Sequencer block
    MaxBlocks,    \* blocks that fit in a batch (MAX_PAYLOAD_SIZE_BYTES)
    Oversized,    \* heights of blocks that do not even fit alone
    Capacity,     \* capacity of the channel to the submitter (128)
    Fees,         \* fees that try_prepare may calculate
    MaxFaults     \* bound: crashes, shutdowns, timeouts, losses and failures

ASSUME RelayerAssumption ==
    /\ LastHeight \in Nat /\ MaxBlocks \in Nat \ {0} /\ Capacity \in Nat \ {0}
    /\ Fees # {} /\ MaxFaults \in Nat /\ Oversized \subseteq 1..LastHeight

VARIABLES
    disk,         \* the submission-state file: State
    phase,        \* "down", "init" (submitter not in its loop), "run", "closing"
    nextFetch,    \* BlockStream: Heights.next
    forward,      \* forward_once_free: a block waiting for room, 0 if none
    blocks,       \* the channel to the submitter
    nextBatch,    \* next_submission
    pending,      \* pending_block, 0 if none
    started,      \* started_submission: its last_submission
    ongoing,      \* ongoing_submission: stage, heights, tx
    mempool,      \* external: Celestia's pending transactions of this account
    celestia,     \* external: the transactions included in Celestia
    failed,       \* external: how many were included with an error code
    faults

external == <<mempool, celestia, failed>>
readerVars == <<nextFetch, forward>>
vars == <<disk, phase, nextFetch, forward, blocks, nextBatch, pending, started,
          ongoing, mempool, celestia, failed, faults>>

NoTx == [nonce |-> 0, heights |-> {}, fee |-> 0]
Nothing == [celestia |-> 0, sequencer |-> 0]
Idle == [stage |-> "none", heights |-> {}, tx |-> NoTx]

Included(tx) == \E n \in 1..Len(celestia) : celestia[n] = tx
AccountNonce == Len(celestia) + failed
HeightOf(tx) == CHOOSE n \in 1..Len(celestia) : celestia[n] = tx

Init ==
    /\ disk = [state |-> "fresh", last |-> Nothing, tx |-> NoTx]
    /\ phase = "down"
    /\ nextFetch = 1 /\ forward = 0
    /\ blocks = << >> /\ nextBatch = {} /\ pending = 0
    /\ started = Nothing /\ ongoing = Idle
    /\ mempool = {} /\ celestia = << >> /\ failed = 0 /\ faults = 0

Fault == faults < MaxFaults /\ faults' = faults + 1

(* A confirmation with a timeout ends without result if there is nothing   *)
(* to confirm; if there is, that takes too long only by a fault.           *)
Lost(tx) == tx \notin mempool /\ ~Included(tx)
TimesOut(tx) == Fault \/ (Lost(tx) /\ UNCHANGED faults)

-----------------------------------------------------------------------------
(* The submission state: each operator is the file a conversion writes.    *)
(* The file is replaced by renaming a temporary one, in a single step.     *)

StartedState(last) == [state |-> "started", last |-> last, tx |-> NoTx]

(* StartedSubmission::into_prepared; the height recorded is the greatest   *)
(* one of tx.heights                                                       *)
PreparedState(last, tx) == [state |-> "prepared", last |-> last, tx |-> tx]

(* PreparedSubmission::into_started, with the height GetTx reported *)
CompletedTooFar(tx) ==   \* mutant: off by one
    [celestia |-> HeightOf(tx), sequencer |-> Max(tx.heights) + 1]

Completed(tx) == [celestia |-> HeightOf(tx), sequencer |-> Max(tx.heights)]

-----------------------------------------------------------------------------
(* Relayer::run *)

(* SubmissionStateAtStartup::new_from_path, spawn_submitter and            *)
(* BlockStreamBuilder::build with last_completed_sequencer_height          *)
Start ==
    /\ phase = "down"
    /\ phase' = "init"
    /\ nextFetch' = disk.last.sequencer + 1
    /\ UNCHANGED <<disk, forward, blocks, nextBatch, pending, started, ongoing, external,
                   faults>>

Reading == phase \in {"init", "run"}

ForwardBlockForSubmission(h) ==
    IF Len(blocks) < Capacity
    THEN blocks' = Append(blocks, h) /\ UNCHANGED forward
    ELSE forward' = h /\ UNCHANGED blocks

(* block_stream, which is paused while a block is waiting, yields a block  *)
BlockFetched ==
    /\ Reading /\ forward = 0 /\ nextFetch <= LastHeight
    /\ nextFetch' = nextFetch + 1
    /\ ForwardBlockForSubmission(nextFetch)
    /\ UNCHANGED <<disk, phase, nextBatch, pending, started, ongoing, external, faults>>

ForwardOnceFree ==
    /\ Reading /\ forward # 0 /\ Len(blocks) < Capacity
    /\ blocks' = Append(blocks, forward)
    /\ forward' = 0
    /\ UNCHANGED <<disk, phase, nextFetch, nextBatch, pending, started, ongoing, external,
                   faults>>

-----------------------------------------------------------------------------
(* BlobSubmitter::run *)

EnterLoop(last) ==
    /\ phase = "init"
    /\ phase' = "run"
    /\ started' = last
    /\ UNCHANGED <<readerVars, blocks, nextBatch, pending, ongoing, external>>

(* fresh.into_started is not written to disk *)
StartFromFile ==
    /\ disk.state # "prepared"
    /\ EnterLoop(disk.last)
    /\ UNCHANGED <<disk, faults>>

(* try_confirm_submission_from_last_session *)
ConfirmLastSession ==
    /\ disk.state = "prepared" /\ Included(disk.tx)
    /\ disk' = StartedState(Completed(disk.tx))
    /\ EnterLoop(Completed(disk.tx))
    /\ UNCHANGED faults

RevertToPrepared ==   \* mutant: an unconfirmed submission is taken for done
    /\ disk.state = "prepared"
    /\ LET last == [celestia |-> disk.last.celestia, sequencer |-> Max(disk.tx.heights)] IN
       disk' = StartedState(last) /\ EnterLoop(last)
    /\ TimesOut(disk.tx)

(* GetTx did not confirm it in time, included or not *)
RevertLastSession ==
    /\ disk.state = "prepared"
    /\ disk' = StartedState(disk.last)
    /\ EnterLoop(disk.last)
    /\ TimesOut(disk.tx)

SubmissionResultIgnored ==   \* mutant: the old state is kept
    /\ phase = "run" /\ ongoing.stage = "done"
    /\ ongoing' = Idle
    /\ UNCHANGED <<disk, phase, readerVars, blocks, nextBatch, pending, started, external,
                   faults>>

(* the result of an ongoing submission *)
SubmissionResult ==
    /\ phase = "run" /\ ongoing.stage = "done"
    /\ started' = Completed(ongoing.tx)
    /\ ongoing' = Idle
    /\ UNCHANGED <<disk, phase, readerVars, blocks, nextBatch, pending, external, faults>>

BatchReady == ongoing.stage = "none" /\ nextBatch # {}

(* next_submission.take(): submit_blobs is started, and the pending block  *)
(* opens the next batch, or the submitter stops because it does not fit    *)
TakeSubmission ==
    /\ phase = "run" /\ BatchReady
    /\ ongoing' = [stage |-> "prepare", heights |-> nextBatch, tx |-> NoTx]
    /\ nextBatch' = {pending} \ ({0} \cup Oversized)
    /\ phase' = IF pending \in Oversized THEN "closing" ELSE "run"
    /\ pending' = 0
    /\ UNCHANGED <<disk, readerVars, blocks, started, external, faults>>

(* NextSubmission::try_add accepts another block; MaxBlocks stands for the *)
(* size limit of the payload.  A block that does not fit is pushed back    *)
(* (Full), unless the batch is empty (OversizedBlock).                     *)
Fits(h) == h \notin Oversized /\ Cardinality(nextBatch) < MaxBlocks

(* blocks.recv() if there is no pending block; the select! is biased       *)
ReceiveBlock ==
    /\ phase = "run" /\ pending = 0 /\ ~BatchReady /\ blocks # << >>
    /\ blocks' = Tail(blocks)
    /\ \/ /\ Head(blocks) <= started.sequencer
          /\ UNCHANGED <<nextBatch, pending>>
       \/ /\ Head(blocks) > started.sequencer /\ Fits(Head(blocks))
          /\ nextBatch' = nextBatch \cup {Head(blocks)} /\ UNCHANGED pending
       \/ /\ Head(blocks) > started.sequencer /\ ~Fits(Head(blocks)) /\ nextBatch # {}
          /\ pending' = Head(blocks) /\ UNCHANGED nextBatch
    /\ UNCHANGED <<disk, phase, readerVars, started, ongoing, external, faults>>

(* The submitter stops with an error, once the submission in flight has    *)
(* ended, and the relayer with it.                                         *)
OversizedBlock ==
    /\ phase = "run" /\ pending = 0 /\ nextBatch = {} /\ blocks # << >>
    /\ Head(blocks) > started.sequencer /\ Head(blocks) \in Oversized
    /\ blocks' = Tail(blocks)
    /\ phase' = "closing"
    /\ UNCHANGED <<disk, readerVars, nextBatch, pending, started, ongoing, external, faults>>

-----------------------------------------------------------------------------
(* submit_with_retry and try_submit, until shutdown has waited for them    *)

Submitting(stage) == phase \in {"run", "closing"} /\ ongoing.stage = stage

submitterFrame == <<phase, readerVars, blocks, nextBatch, pending, started>>

(* try_prepare fetches the account's nonce (external: the number of        *)
(* included transactions) and calculates a fee; an error is retried        *)
TryPrepare(fee) == [nonce |-> AccountNonce, heights |-> ongoing.heights, fee |-> fee]

(* into_prepared writes the file if the batch goes beyond the last one     *)
(* (otherwise the relayer would have to stop)                              *)
Prepare(fee) ==
    /\ Submitting("prepare")
    /\ Max(ongoing.heights) > started.sequencer
    /\ disk' = PreparedState(started, TryPrepare(fee))
    /\ ongoing' = [ongoing EXCEPT !.stage = "broadcast", !.tx = TryPrepare(fee)]
    /\ UNCHANGED <<submitterFrame, external, faults>>

(* external: the Celestia app accepts a transaction with the account's     *)
(* next nonce if no other one waits                                        *)
Acceptable(tx) == tx.nonce = AccountNonce /\ mempool = {}

BroadcastOk ==
    /\ Submitting("broadcast") /\ Acceptable(ongoing.tx)
    /\ mempool' = {ongoing.tx}
    /\ ongoing' = [ongoing EXCEPT !.stage = "confirm"]
    /\ UNCHANGED <<disk, submitterFrame, celestia, failed, faults>>

BroadcastRepeated ==   \* mutant: the transaction is not prepared again
    /\ Submitting("broadcast") /\ ~Acceptable(ongoing.tx)
    /\ UNCHANGED <<disk, submitterFrame, ongoing, external, faults>>

(* TrySubmitError: another attempt, with a new transaction *)
BroadcastRejected ==
    /\ Submitting("broadcast") /\ ~Acceptable(ongoing.tx)
    /\ ongoing' = [ongoing EXCEPT !.stage = "prepare"]
    /\ UNCHANGED <<disk, submitterFrame, external, faults>>

(* The answer is lost: a timeout is followed by confirmation, any other    *)
(* error by another attempt; Celestia may have got the transaction.        *)
BroadcastLost ==
    /\ Submitting("broadcast") /\ Fault
    /\ mempool' \in {mempool} \cup (IF Acceptable(ongoing.tx) THEN {{ongoing.tx}} ELSE {})
    /\ ongoing' \in {[ongoing EXCEPT !.stage = s] : s \in {"timedout", "prepare"}}
    /\ UNCHANGED <<disk, submitterFrame, celestia, failed>>

(* confirm_submission: GetTx is polled for as long as it takes, whether it *)
(* has no answer or reports an error code; and                             *)
(* try_confirm_submission_from_failed_attempt                              *)
Confirm ==
    /\ Submitting("confirm") \/ Submitting("timedout")
    /\ Included(ongoing.tx)
    /\ disk' = StartedState(Completed(ongoing.tx))
    /\ ongoing' = [ongoing EXCEPT !.stage = "done"]
    /\ UNCHANGED <<submitterFrame, external, faults>>

ConfirmTimesOut ==
    /\ Submitting("timedout") /\ TimesOut(ongoing.tx)
    /\ ongoing' = [ongoing EXCEPT !.stage = "prepare"]
    /\ UNCHANGED <<disk, submitterFrame, external>>

-----------------------------------------------------------------------------
(* Celestia (external), shutdown and crashes *)

Include(tx) ==
    /\ tx \in mempool
    /\ celestia' = Append(celestia, tx)
    /\ mempool' = mempool \ {tx}
    /\ UNCHANGED <<disk, submitterFrame, ongoing, failed, faults>>

(* included with an error code *)
IncludeFailed ==
    /\ mempool # {} /\ Fault
    /\ failed' = failed + 1
    /\ mempool' = {}
    /\ UNCHANGED <<disk, submitterFrame, ongoing, celestia>>

Evict ==
    /\ mempool # {} /\ Fault
    /\ mempool' = {}
    /\ UNCHANGED <<disk, submitterFrame, ongoing, celestia, failed>>

(* the relayer's and the submitter's token; the submission in flight is    *)
(* waited for                                                              *)
Shutdown ==
    /\ Reading /\ Fault
    /\ phase' = "closing"
    /\ UNCHANGED <<disk, readerVars, blocks, nextBatch, pending, started, ongoing, external>>

LoseMemory ==
    /\ phase' = "down"
    /\ nextFetch' = 1 /\ forward' = 0
    /\ blocks' = << >> /\ nextBatch' = {} /\ pending' = 0
    /\ started' = Nothing /\ ongoing' = Idle
    /\ UNCHANGED <<disk, external>>

Exit == phase = "closing" /\ ongoing.stage \in {"none", "done"} /\ LoseMemory /\ UNCHANGED faults

Crash == phase # "down" /\ Fault /\ LoseMemory

WaitsForever == ongoing.stage = "confirm" /\ Lost(ongoing.tx)

Finished ==
    /\ \/ disk.last.sequencer = LastHeight /\ disk.state = "started"
       \/ WaitsForever
    /\ UNCHANGED vars

SubmitterStep ==
    \/ StartFromFile \/ ConfirmLastSession \/ SubmissionResult \/ TakeSubmission
    \/ ReceiveBlock \/ OversizedBlock \/ (\E fee \in Fees : Prepare(fee)) \/ BroadcastOk
    \/ BroadcastRejected \/ Confirm \/ RevertLastSession \/ ConfirmTimesOut

FaultStep == BroadcastLost \/ IncludeFailed \/ Evict \/ Shutdown \/ Crash

IncludeStep == \E tx \in mempool : Include(tx)

Next ==
    \/ Start \/ BlockFetched \/ ForwardOnceFree \/ SubmitterStep \/ Exit
    \/ FaultStep \/ IncludeStep \/ Finished

Spec == Init /\ [][Next]_vars

(* Fairness: the runtime polls both tasks, requests are retried endlessly, *)
(* a relayer that is down is started again, and Celestia includes what it  *)
(* keeps in its mempool.  Faults are not forced and are finite in number.  *)
Fairness ==
    /\ WF_vars(Start) /\ WF_vars(BlockFetched) /\ WF_vars(ForwardOnceFree)
    /\ WF_vars(SubmitterStep) /\ WF_vars(Exit) /\ WF_vars(IncludeStep)

FairSpec == Spec /\ Fairness
-----------------------------------------------------------------------------
Posted == UNION {celestia[n].heights : n \in 1..Len(celestia)}

Heights == 1..LastHeight
Txs == [nonce : Nat, heights : SUBSET Heights, fee : Fees \cup {0}]

(* Every transaction on Celestia starts at or below the height behind the  *)
(* one before it: whatever is repeated after a crash or a timeout, a       *)
(* height is only ever followed by the next one or by a repetition from    *)
(* further back ("imposes no extra ordering", BlobSubmitter).  Conductor's *)
(* Celestia reader relies on it when it resumes at the Celestia height of  *)
(* its last firm block.                                                    *)
PostedInOrder ==
    \A n \in 1..Len(celestia) :
      LET before == IF n = 1 THEN 0 ELSE Max(celestia[n - 1].heights) IN
      /\ Min(celestia[n].heights) <= before + 1
      /\ celestia[n].heights = Min(celestia[n].heights) .. Max(celestia[n].heights)

(* What the submission-state file reports as completed is on Celestia,     *)
(* with everything below it, at the height the file names: the relayer     *)
(* never skips a block because of a file written too early.                *)
FileIsTrue ==
    /\ disk.state = "prepared" => Max(disk.tx.heights) > disk.last.sequencer
    /\ 1..disk.last.sequencer \subseteq Posted
    /\ disk.last.sequencer > 0 =>
         /\ disk.last.celestia \in 1..Len(celestia)
         /\ Max(celestia[disk.last.celestia].heights) = disk.last.sequencer

(* The completed height on disk never goes back: not by the revert of a    *)
(* submission, and not by an attempt that starts from the state before it  *)
(* (try_submit clones started_submission).                                 *)
FileNeverGoesBack ==
    [][/\ disk'.last.sequencer >= disk.last.sequencer
       /\ disk'.last.celestia >= disk.last.celestia]_vars

(* Every block is eventually on Celestia and recorded as such, up to the   *)
(* first one that is too large for a payload, which the relayer meets      *)
(* again at every start (try_add), unless the submitter waits for a        *)
(* transaction that Celestia has lost or included with an error code       *)
(* (try_submit confirms without a timeout).                                *)
EventuallyPosted ==
    <>[](\/ disk.last.sequencer = LastHeight \/ disk.last.sequencer + 1 \in Oversized
         \/ WaitsForever)
=============================================================================
