--------------------------- MODULE CelestiaReader ---------------------------
(***************************************************************************)
(* Conductor's Celestia reader (crates/astria-conductor/src/celestia):     *)
(* tasks fetch the blobs of a window of Celestia heights concurrently,     *)
(* verify and reconstruct Sequencer blocks from them, and a BlockCache     *)
(* puts the blocks in order for the firm channel.  The executor is reduced *)
(* to its firm commitment: the next expected height and the lowest         *)
(* Celestia search height, the only state that outlives a restart.         *)
(*                                                                         *)
(* A metadata blob is [height, valid], with the rollup data posted beside  *)
(* it; it is valid if the Sequencer's commit for this height has its chain *)
(* ID and block hash.  A block is a blob with the Celestia height it was   *)
(* read from.  An action is one branch of the select! loop.                *)
(***************************************************************************)
EXTENDS Naturals, Sequences, FiniteSets, FiniteSetsExt

CONSTANTS
    Blobs,        \* external: the set of metadata blobs at each Celestia height
    First,        \* next expected firm height, and lowest Celestia search
    FirstSearch,  \*   height, when Conductor is first started
    StopHeight,   \* sequencer_stop_height, 0 if there is none
    LookAhead,    \* celestia_search_height_max_look_ahead
    MaxTasks,     \* bound on reconstruction_tasks (10)
    Capacity      \* capacity of the firm channel (16)

Heights(c) == {b.height : b \in Blobs[c]}
AllHeights == UNION {Heights(c) : c \in 1..Len(Blobs)}

(***************************************************************************)
(* The relayer resumes where it left off: after a height it posts the next *)
(* one, at the same or a later Celestia height, so a repeated post is      *)
(* followed by repeated posts of its successors (module Relayer).  No two  *)
(* successive heights are further apart than the look-ahead.               *)
(***************************************************************************)
ASSUME InclusionAssumption ==
    /\ Blobs \in Seq(SUBSET [height : Nat \ {0}, valid : BOOLEAN])
    /\ First \in Nat \ {0} /\ FirstSearch \in Nat /\ StopHeight \in Nat
    /\ LookAhead \in Nat /\ MaxTasks \in Nat \ {0} /\ Capacity \in Nat \ {0}
    /\ \E c \in FirstSearch .. FirstSearch + LookAhead :
         c \in 1..Len(Blobs) /\ First \in Heights(c)
    /\ \A c \in 1..Len(Blobs) : \A h \in Heights(c) :
         h + 1 \in AllHeights =>
            \E d \in c .. c + LookAhead : d \in 1..Len(Blobs) /\ h + 1 \in Heights(d)

VARIABLES
    task,         \* "run" (with initialize), "ok", "err"
    head,         \* celestia_head_height, 0 if none
    nextCelestia, \* celestia_next_height
    reference,    \* celestia_reference_height
    tasks,        \* reconstruction_tasks: Celestia heights
    dropped,      \* history: heights dropped by a task since the last start
    cache,        \* BlockCache: inner (blocks by height), nextHeight
    enqueued,     \* enqueued_block: << >> or <<block>>
    firmBlocks,   \* the firm channel
    celestia,     \* external: head of the Celestia network
    expected,     \* executor: next_expected_firm_sequencer_height
    search,       \* executor: lowest_celestia_search_height
    executing,    \* executor: << >> or <<block>> in hand
    executed,     \* history: the blobs whose blocks became firm
    cancelled     \* reader_cancellation_token

windowVars == <<head, nextCelestia, reference, tasks, dropped>>
executorVars == <<expected, search, executing, executed, cancelled>>
vars == <<task, head, nextCelestia, reference, tasks, dropped, cache, enqueued, firmBlocks,
          celestia, expected, search, executing, executed, cancelled>>

PastStopHeight(h) == StopHeight # 0 /\ h > StopHeight
Advance(c) == IF c > reference THEN c ELSE reference

Init ==
    /\ task = "run" /\ head = 0
    /\ nextCelestia = FirstSearch /\ reference = FirstSearch
    /\ tasks = {} /\ dropped = {} /\ cache = [inner |-> << >>, nextHeight |-> First]
    /\ enqueued = << >> /\ firmBlocks = << >> /\ celestia = 0
    /\ expected = First /\ search = FirstSearch
    /\ executing = << >> /\ executed = {} /\ cancelled = FALSE

(* RunningReader::from_parts, for a Conductor that starts again from the   *)
(* rollup's commitment state after it has terminated or crashed            *)
FromParts ==
    /\ task' = "run" /\ head' = 0
    /\ nextCelestia' = search /\ reference' = search
    /\ tasks' = {} /\ dropped' = {} /\ cache' = [inner |-> << >>, nextHeight |-> expected]
    /\ enqueued' = << >> /\ firmBlocks' = << >>
    /\ executing' = << >> /\ cancelled' = FALSE
    /\ UNCHANGED <<celestia, expected, search, executed>>

-----------------------------------------------------------------------------
(* The reader task *)

HasReachedStopHeightInFlight == PastStopHeight(cache.nextHeight)   \* mutant

HasReachedStopHeight == PastStopHeight(cache.nextHeight) /\ enqueued = << >>

(* can_schedule_blobs; with no head observed yet nothing is scheduled *)
CanScheduleBlobs ==
    /\ nextCelestia <= head
    /\ nextCelestia <= reference + LookAhead
    /\ Cardinality(tasks) < MaxTasks

(* one turn of the loop in schedule_new_blobs, which is run to its end     *)
(* before the select!; Celestia has no block 0, its task finds nothing     *)
ScheduleNewBlobs ==
    /\ task = "run" /\ ~HasReachedStopHeight
    /\ CanScheduleBlobs
    /\ tasks' = tasks \cup {nextCelestia}
    /\ nextCelestia' = nextCelestia + 1
    /\ UNCHANGED <<task, head, reference, dropped, cache, enqueued, firmBlocks,
                   celestia, executorVars>>

Select == task = "run" /\ ~HasReachedStopHeight /\ ~CanScheduleBlobs

Return ==
    /\ task = "run"
    /\ HasReachedStopHeight \/ cancelled
    /\ task' = "ok"
    /\ UNCHANGED <<windowVars, cache, enqueued, firmBlocks, celestia, executorVars>>

(* fault: a task fails to fetch its blobs, or panics *)
TaskFails ==
    /\ Select /\ tasks # {}
    /\ task' = "err"
    /\ UNCHANGED <<windowVars, cache, enqueued, firmBlocks, celestia, executorVars>>

SendEnqueued ==
    /\ Select /\ enqueued # << >>
    /\ \/ /\ ~cancelled /\ Len(firmBlocks) < Capacity
          /\ firmBlocks' = firmBlocks \o enqueued
          /\ reference' = Advance(Head(enqueued).celestia)
          /\ enqueued' = << >> /\ UNCHANGED task
       \/ /\ cancelled   \* the channel is closed
          /\ task' = "err" /\ UNCHANGED <<firmBlocks, reference, enqueued>>
    /\ UNCHANGED <<head, nextCelestia, tasks, dropped, cache, celestia, executorVars>>

NextBlockReady == enqueued = << >> /\ cache.nextHeight \in DOMAIN cache.inner

Popped == [inner |-> [h \in DOMAIN cache.inner \ {cache.nextHeight} |-> cache.inner[h]],
           nextHeight |-> cache.nextHeight + 1]

ForwardKeepsReference ==   \* mutant: the window does not move
    /\ Select /\ NextBlockReady /\ ~cancelled /\ Len(firmBlocks) < Capacity
    /\ cache' = Popped
    /\ firmBlocks' = Append(firmBlocks, cache.inner[cache.nextHeight])
    /\ UNCHANGED <<task, windowVars, enqueued, celestia, executorVars>>

(* BlockCache::pop, then forward_block_to_executor *)
ForwardBlockToExecutor ==
    /\ Select /\ NextBlockReady
    /\ cache' = Popped
    /\ LET block == cache.inner[cache.nextHeight] IN
       \/ /\ ~cancelled /\ Len(firmBlocks) < Capacity
          /\ firmBlocks' = Append(firmBlocks, block)
          /\ reference' = Advance(block.celestia)
          /\ UNCHANGED <<task, enqueued>>
       \/ /\ ~cancelled /\ Len(firmBlocks) = Capacity
          /\ enqueued' = <<block>>
          /\ UNCHANGED <<task, firmBlocks, reference>>
       \/ /\ cancelled   \* the channel is closed
          /\ task' = "err" /\ UNCHANGED <<firmBlocks, enqueued, reference>>
    /\ UNCHANGED <<head, nextCelestia, tasks, dropped, celestia, executorVars>>

(* verify_metadata: blobs below the expected height are dropped (the       *)
(* height is read earlier in the task, but the cache refuses these blocks  *)
(* too); one whose hash or chain ID does not match is logged as dropped    *)
(* and returned all the same (BlobVerifier::verify_metadata).              *)
Verified(c) ==
    IF c \notin 1..Len(Blobs) THEN {} ELSE {b \in Blobs[c] : b.height >= expected}

(* reconstruct_blocks_from_verified_blobs: a block for every header blob,  *)
(* with the rollup data posted beside it                                   *)
Reconstructed(c) ==
    {[height |-> b.height, valid |-> b.valid, celestia |-> c] : b \in Verified(c)}

(* BlockCache::insert refuses heights that are too old or occupied *)
NewHeights(blocks) ==
    {h \in {b.height : b \in blocks} : h >= cache.nextHeight} \ DOMAIN cache.inner

(* cache_reconstructed_blocks: the possible caches, since the blocks of    *)
(* one task come in no particular order                                    *)
CacheReconstructedBlocks(blocks) ==
    LET new == NewHeights(blocks) IN
    {[cache EXCEPT !.inner =
        [h \in DOMAIN @ \cup new |-> IF h \in new THEN found[h] ELSE @[h]]] :
        found \in {f \in [new -> blocks] : \A h \in new : f[h].height = h}}

TaskDone(c) ==
    /\ Select /\ ~NextBlockReady
    /\ c \in tasks
    /\ tasks' = tasks \ {c}
    /\ cache' \in CacheReconstructedBlocks(Reconstructed(c))
    /\ UNCHANGED <<task, head, nextCelestia, reference, dropped, enqueued, firmBlocks,
                   celestia, executorVars>>

(* fault: a blob is dropped because the Sequencer's answer to the request  *)
(* for its commit is an error that is not retried, or its rollup data is   *)
(* missing                                                                 *)
TaskDropsBlob(c) ==
    /\ Select /\ ~NextBlockReady
    /\ c \in tasks
    /\ tasks' = tasks \ {c}
    /\ \E block \in Reconstructed(c) :
         /\ cache' \in CacheReconstructedBlocks(Reconstructed(c) \ {block})
         /\ dropped' = dropped \cup {block.height}
    /\ UNCHANGED <<task, head, nextCelestia, reference, enqueued, firmBlocks, celestia,
                   executorVars>>

(* record_latest_celestia_height *)
HandleLatestHeight(c) ==
    /\ Select /\ ~NextBlockReady
    /\ c <= celestia /\ c > head
    /\ head' = c
    /\ UNCHANGED <<task, nextCelestia, reference, tasks, dropped, cache, enqueued, firmBlocks,
                   celestia, executorVars>>

-----------------------------------------------------------------------------
(* The environment: Celestia (external) and the executor (execute_firm)    *)
ProduceBlock ==
    /\ celestia < Len(Blobs)
    /\ celestia' = celestia + 1
    /\ UNCHANGED <<task, windowVars, cache, enqueued, firmBlocks, executorVars>>

TakeFirmBlock ==
    /\ executing = << >> /\ firmBlocks # << >>
    /\ executing' = <<Head(firmBlocks)>>
    /\ firmBlocks' = Tail(firmBlocks)
    /\ UNCHANGED <<task, windowVars, cache, enqueued, celestia, expected, search, executed,
                   cancelled>>

BlobOf(block) == [height |-> block.height, valid |-> block.valid]

CommitPastBlock ==   \* mutant: the search goes on behind the executed block
    /\ executing # << >>
    /\ expected' = Head(executing).height + 1
    /\ search' = Head(executing).celestia + 1
    /\ executing' = << >> /\ executed' = executed \cup {BlobOf(Head(executing))}
    /\ UNCHANGED <<task, windowVars, cache, enqueued, firmBlocks, celestia, cancelled>>

CommitFirmBlock ==
    /\ executing # << >>
    /\ expected' = Head(executing).height + 1
    /\ search' = Head(executing).celestia
    /\ executing' = << >> /\ executed' = executed \cup {BlobOf(Head(executing))}
    /\ UNCHANGED <<task, windowVars, cache, enqueued, firmBlocks, celestia, cancelled>>

CancelReaders ==
    /\ ~cancelled
    /\ cancelled' = TRUE
    /\ UNCHANGED <<task, windowVars, cache, enqueued, firmBlocks, celestia, expected,
                   search, executing, executed>>

(* Conductor terminates or crashes at any point and is started again *)
Restart == FromParts

ReaderStep ==
    \/ ScheduleNewBlobs \/ Return \/ SendEnqueued \/ ForwardBlockToExecutor
    \/ \E c \in tasks : TaskDone(c)
    \/ \E c \in 1..Len(Blobs) : HandleLatestHeight(c)

ExecutorStep == TakeFirmBlock \/ CommitFirmBlock

Finished == task # "run" /\ UNCHANGED vars

Drops == \E c \in tasks : TaskDropsBlob(c)

Next ==
    \/ ReaderStep \/ TaskFails \/ Drops
    \/ ProduceBlock \/ ExecutorStep \/ CancelReaders \/ Finished \/ Restart

Spec == Init /\ [][Next]_vars

(* Fairness: the runtime polls every task and Celestia is retried until it *)
(* answers; a Conductor that has stopped, which it does not do while the   *)
(* reader or the executor is still at work, is started again.              *)
Stopped == task = "err" \/ (task = "ok" /\ cancelled)

Fairness ==
    /\ WF_vars(ScheduleNewBlobs) /\ WF_vars(Return) /\ WF_vars(SendEnqueued)
    /\ WF_vars(ForwardBlockToExecutor)
    /\ \A c \in 0..Len(Blobs) : WF_vars(TaskDone(c))
    /\ WF_vars(HandleLatestHeight(Len(Blobs)))
    /\ WF_vars(ProduceBlock) /\ WF_vars(TakeFirmBlock) /\ WF_vars(CommitFirmBlock)
    /\ WF_vars(Stopped /\ Restart)

FairSpec == Spec /\ Fairness

-----------------------------------------------------------------------------
(* The height stored for the next start never passes the next block: a     *)
(* Conductor that starts again finds the block it expects in its window,   *)
(* although blocks may have been read from a repeated, later post          *)
(* (update_commitment_state, lowest_celestia_search_height).               *)
SearchHeightReachesNextBlock ==
    expected \in AllHeights =>
      \E c \in search .. search + LookAhead : c \in 1..Len(Blobs) /\ expected \in Heights(c)

(* Once Conductor is no longer stopped, every height posted to Celestia    *)
(* (up to the stop height) is executed as a firm block, and the block is   *)
(* the one the Sequencer committed to, unless somebody posted another blob *)
(* for that height (which verify_metadata returns, although it says that   *)
(* it "drops blobs that could not be verified"); or Conductor waits for    *)
(* good at a height whose blob it dropped since it was last started, for   *)
(* its commit could not be fetched or its rollup data was missing.  The    *)
(* window of Celestia heights always moves on                              *)
(* (advance_reference_celestia_height), and a restart loses nothing.       *)
Calm == [][~(TaskFails \/ CancelReaders \/ (~Stopped /\ Restart))]_vars
LastFirm == IF StopHeight # 0 /\ StopHeight < Max(AllHeights) THEN StopHeight
                                                             ELSE Max(AllHeights)
ForeignPosted(h) == \E c \in 1..Len(Blobs) : [height |-> h, valid |-> FALSE] \in Blobs[c]

AllFirm ==
    \A h \in First..LastFirm :
        \E b \in executed : b.height = h /\ (b.valid \/ ForeignPosted(h))

EventuallyFirm == <>Calm => <>[](AllFirm \/ expected \in dropped)

(* The reader is the ordered feed that module Executor assumes, whenever   *)
(* Conductor is started again: heights are sent in order, starting at the  *)
(* one the executor expects.                                               *)
Feed == INSTANCE OrderedFeed WITH
          next <- IF enqueued # << >> THEN Head(enqueued).height ELSE cache.nextHeight,
          channel <- [i \in 1..Len(firmBlocks) |-> firmBlocks[i].height],
          executing <- IF executing = << >> THEN 0 ELSE Head(executing).height
RefinesOrderedFeed == Feed!Spec
=============================================================================
