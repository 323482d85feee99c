-------------------------- MODULE SequencerReader ---------------------------
(***************************************************************************)
(* Conductor's Sequencer reader (crates/astria-conductor/src/sequencer/    *)
(* mod.rs), its stream of concurrent block fetches (block_stream.rs) and   *)
(* the cache that puts fetched blocks in order (block_cache.rs), with the  *)
(* executor that drains the soft channel reduced to what the reader sees   *)
(* of it: the watched state and the channel.                               *)
(*                                                                         *)
(* An action is one iteration of run_loop.  Fetches complete in any order, *)
(* and the executor runs on another thread.  Heights start at 1; 0 stands  *)
(* for Option::None.                                                       *)
(***************************************************************************)
EXTENDS Naturals, Sequences, FiniteSets, FiniteSetsExt

CONSTANTS
    First,        \* height expected when the executor starts the reader
    StopHeight,   \* sequencer_stop_height, 0 if there is none
    LastHeight,   \* bound: height of the newest Sequencer block
    MaxAhead,     \* max_ahead (128)
    MaxInFlight,  \* capacity of in_progress (20)
    Capacity      \* capacity of the soft channel

ASSUME ReaderAssumption ==
    /\ First \in Nat \ {0} /\ StopHeight \in Nat /\ LastHeight \in Nat
    /\ MaxAhead \in Nat \ {0} /\ MaxInFlight \in Nat \ {0} /\ Capacity \in Nat \ {0}

VARIABLES
    task,         \* "init" until initialize() is done, "run", "ok", "err"
    heights,      \* Heights: rollupExpects, greatestRequested, latestObserved
    inProgress,   \* heights being fetched
    cache,        \* BlockCache: inner (heights in it), nextHeight
    enqueued,     \* enqueued_block: a block waiting for room in the channel
    softBlocks,   \* the soft channel
    sequencer,    \* external: height of the Sequencer network
    expected,     \* executor: next_expected_soft_sequencer_height
    unseen,       \* the watched state has changed since it was last awaited
    executing,    \* executor: soft block in hand
    cancelled     \* reader_cancellation_token

readerVars == <<task, heights, inProgress, cache, enqueued>>
executorVars == <<expected, unseen, executing, cancelled>>
vars == <<task, heights, inProgress, cache, enqueued, softBlocks, sequencer,
          expected, unseen, executing, cancelled>>

Init ==
    /\ task = "init"
    /\ heights = [rollupExpects |-> First, greatestRequested |-> 0, latestObserved |-> 0]
    /\ inProgress = {}
    /\ cache = [inner |-> {}, nextHeight |-> First]
    /\ enqueued = 0
    /\ softBlocks = << >>
    /\ sequencer = 0
    /\ expected = First /\ unseen = FALSE /\ executing = 0 /\ cancelled = FALSE

PastStopHeight(h) == StopHeight # 0 /\ h > StopHeight

-----------------------------------------------------------------------------
(* Heights and BlocksFromHeightStream *)

(* next_height_to_fetch before its bounds are applied *)
PotentialHeight ==
    IF heights.greatestRequested = 0 THEN heights.rollupExpects
                                     ELSE heights.greatestRequested + 1

(* mutant: <= instead of < *)
NotFarTooFarAhead(h) == h <= heights.rollupExpects + MaxAhead

NotTooFarAhead(h) == h < heights.rollupExpects + MaxAhead

(* the heights next_height_to_fetch yields one after the other *)
FetchableHeights ==
    {h \in PotentialHeight .. heights.latestObserved :
        NotTooFarAhead(h) /\ ~PastStopHeight(h)}

(* the fetches poll_next starts: the first ones there is room for *)
FetchesStarted ==
    {h \in FetchableHeights :
        h - PotentialHeight < MaxInFlight - Cardinality(inProgress)}

(* set_greatest_if_greater after each of them *)
Requested(hs) ==
    IF hs = {} THEN heights ELSE [heights EXCEPT !.greatestRequested = Max(hs)]

(* BlockCache::insert: a block that is too old is dropped *)
Insert(h) ==
    IF h < cache.nextHeight THEN cache ELSE [cache EXCEPT !.inner = @ \cup {h}]

(* BlockCache::drop_obsolete *)
DropObsoleteNoMax(h) ==   \* mutant: the next height may move back
    [inner |-> {i \in cache.inner : i >= h}, nextHeight |-> h]

DropObsolete(h) ==
    [inner |-> {i \in cache.inner : i >= h},
     nextHeight |-> IF h > cache.nextHeight THEN h ELSE cache.nextHeight]

-----------------------------------------------------------------------------
(* The reader task *)

(* has_reached_stop_height *)
HasReachedStopHeight == PastStopHeight(cache.nextHeight) /\ enqueued = 0

(* next_block() yields a block and is polled before the block stream *)
NextBlockReady == enqueued = 0 /\ cache.nextHeight \in cache.inner

(* Reader::initialize and RunningReader::try_from_parts, which reads the   *)
(* state as it is by then                                                  *)
Initialize ==
    /\ task = "init"
    /\ task' = "run"
    /\ heights' = [heights EXCEPT !.rollupExpects = expected]
    /\ cache' = [cache EXCEPT !.nextHeight = expected]
    /\ UNCHANGED <<inProgress, enqueued, softBlocks, sequencer, executorVars>>

(* the stop height is checked at the top of the loop, the token in select! *)
Return ==
    /\ \/ task = "run" /\ (HasReachedStopHeight \/ cancelled)
       \/ task = "init" /\ cancelled
    /\ task' = "ok"
    /\ UNCHANGED <<heights, inProgress, cache, enqueued, softBlocks, sequencer,
                   executorVars>>

(* fault: initialize() fails, or a fetch returns an error that cannot be   *)
(* retried                                                                 *)
Fail ==
    /\ task = "init" \/ (task = "run" /\ inProgress # {} /\ ~HasReachedStopHeight)
    /\ task' = "err"
    /\ UNCHANGED <<heights, inProgress, cache, enqueued, softBlocks, sequencer,
                   executorVars>>

Iterate == task = "run" /\ ~HasReachedStopHeight

(* the enqueued block finds room; sending on the closed channel fails      *)
SendEnqueued ==
    /\ Iterate /\ enqueued # 0
    /\ IF cancelled
       THEN task' = "err" /\ UNCHANGED <<enqueued, softBlocks>>
       ELSE /\ Len(softBlocks) < Capacity
            /\ softBlocks' = Append(softBlocks, enqueued)
            /\ enqueued' = 0 /\ UNCHANGED task
    /\ UNCHANGED <<heights, inProgress, cache, sequencer, executorVars>>

(* mutant: the block stream is not told of the new height *)
UpdateCacheOnly ==
    /\ Iterate /\ unseen
    /\ cache' = DropObsolete(expected)
    /\ unseen' = FALSE
    /\ UNCHANGED <<task, heights, inProgress, enqueued, softBlocks, sequencer, expected,
                   executing, cancelled>>

(* next_expected_soft_height_if_changed, then update_next_expected_height  *)
UpdateNextExpectedHeight ==
    /\ Iterate /\ unseen
    /\ heights' = IF expected > heights.rollupExpects
                  THEN [heights EXCEPT !.rollupExpects = expected] ELSE heights
    /\ cache' = DropObsolete(expected)
    /\ unseen' = FALSE
    /\ UNCHANGED <<task, inProgress, enqueued, softBlocks, sequencer, expected, executing,
                   cancelled>>

(* BlockCache::pop, then send_to_executor *)
SendToExecutor ==
    /\ Iterate /\ NextBlockReady
    /\ cache' = [inner |-> cache.inner \ {cache.nextHeight},
                 nextHeight |-> cache.nextHeight + 1]
    /\ \/ /\ cancelled   \* try_send: the channel is closed
          /\ task' = "err" /\ UNCHANGED <<enqueued, softBlocks>>
       \/ /\ ~cancelled /\ Len(softBlocks) < Capacity
          /\ softBlocks' = Append(softBlocks, cache.nextHeight)
          /\ UNCHANGED <<task, enqueued>>
       \/ /\ ~cancelled /\ Len(softBlocks) = Capacity
          /\ enqueued' = cache.nextHeight
          /\ UNCHANGED <<task, softBlocks>>
    /\ UNCHANGED <<heights, inProgress, sequencer, executorVars>>

(* poll_next with no fetch done, or with one that timed out and is started *)
(* again at once                                                           *)
PollBlockStream ==
    /\ Iterate /\ ~NextBlockReady
    /\ FetchesStarted # {}
    /\ inProgress' = inProgress \cup FetchesStarted
    /\ heights' = Requested(FetchesStarted)
    /\ UNCHANGED <<task, cache, enqueued, softBlocks, sequencer, executorVars>>

(* poll_next starts fetches and yields a fetched block *)
BlockFetched(h) ==
    /\ Iterate /\ ~NextBlockReady
    /\ h \in inProgress
    /\ inProgress' = (inProgress \cup FetchesStarted) \ {h}
    /\ heights' = Requested(FetchesStarted)
    /\ cache' = Insert(h)
    /\ UNCHANGED <<task, enqueued, softBlocks, sequencer, executorVars>>

(* handle_latest_height; a node that lags behind may answer *)
HandleLatestHeight(h) ==
    /\ Iterate /\ ~NextBlockReady
    /\ h <= sequencer /\ h > heights.latestObserved
    /\ heights' = [heights EXCEPT !.latestObserved = h]
    /\ UNCHANGED <<task, inProgress, cache, enqueued, softBlocks, sequencer, executorVars>>

-----------------------------------------------------------------------------
(* The environment: the Sequencer (external) and the executor (execute_    *)
(* soft and execute_firm, module Executor)                                 *)
ProduceBlock ==
    /\ sequencer < LastHeight
    /\ sequencer' = sequencer + 1
    /\ UNCHANGED <<readerVars, softBlocks, executorVars>>

TakeSoftBlock ==
    /\ executing = 0 /\ softBlocks # << >>
    /\ softBlocks' = Tail(softBlocks)
    /\ executing' = IF Head(softBlocks) < expected THEN 0 ELSE Head(softBlocks)
    /\ UNCHANGED <<readerVars, sequencer, expected, unseen, cancelled>>

CommitSoftBlock ==
    /\ executing # 0
    /\ expected' = executing + 1 /\ unseen' = TRUE /\ executing' = 0
    /\ UNCHANGED <<readerVars, softBlocks, sequencer, cancelled>>

CommitFirmBlock ==
    /\ executing = 0
    /\ expected <= sequencer /\ ~PastStopHeight(expected)
    /\ expected' = expected + 1 /\ unseen' = TRUE
    /\ UNCHANGED <<readerVars, softBlocks, sequencer, executing, cancelled>>

CancelReaders ==
    /\ ~cancelled
    /\ cancelled' = TRUE
    /\ UNCHANGED <<readerVars, softBlocks, sequencer, expected, unseen, executing>>

Heights == 1..LastHeight

ReaderStep ==
    \/ Initialize \/ Return \/ SendEnqueued \/ UpdateNextExpectedHeight
    \/ SendToExecutor \/ PollBlockStream
    \/ \E h \in Heights : BlockFetched(h) \/ HandleLatestHeight(h)

Finished == task \in {"ok", "err"} /\ UNCHANGED vars

Next ==
    \/ ReaderStep \/ Fail
    \/ ProduceBlock \/ TakeSoftBlock \/ CommitSoftBlock \/ CommitFirmBlock
    \/ CancelReaders \/ Finished

Spec == Init /\ [][Next]_vars

(* Fairness: the runtime polls the reader and the executor, every fetch is *)
(* retried until it succeeds (SequencerGrpcClient::get), the newest height *)
(* is eventually observed, and the Sequencer produces its blocks.          *)
Fairness ==
    /\ WF_vars(Initialize) /\ WF_vars(Return)
    /\ WF_vars(SendEnqueued) /\ WF_vars(UpdateNextExpectedHeight)
    /\ WF_vars(SendToExecutor) /\ WF_vars(PollBlockStream)
    /\ \A h \in Heights : WF_vars(BlockFetched(h))
    /\ WF_vars(HandleLatestHeight(LastHeight))
    /\ WF_vars(ProduceBlock) /\ WF_vars(TakeSoftBlock) /\ WF_vars(CommitSoftBlock)

FairSpec == Spec /\ Fairness

-----------------------------------------------------------------------------
(* The cache holds at most MaxAhead blocks, beside MaxInFlight requests,   *)
(* however far the executor lags behind (next_height_to_fetch, FuturesMap).*)
ReaderMemoryBounded ==
    /\ Cardinality(inProgress) <= MaxInFlight
    /\ Cardinality(cache.inner) <= MaxAhead

(* Unless the reader fails or is cancelled, every block up to the stop     *)
(* height is executed, and at the stop height the reader returns.          *)
EventuallyForwarded ==
    <>(\/ task = "err" \/ cancelled
       \/ IF StopHeight = 0 THEN expected > LastHeight
                            ELSE expected > StopHeight /\ task = "ok")

(* The reader is the ordered feed that module Executor assumes.            *)
Feed == INSTANCE OrderedFeed WITH
          next <- IF enqueued # 0 THEN enqueued ELSE cache.nextHeight,
          task <- IF task = "init" THEN "run" ELSE task,
          channel <- softBlocks
RefinesOrderedFeed == Feed!Spec
=============================================================================
