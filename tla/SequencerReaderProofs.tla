----------------------- MODULE SequencerReaderProofs ------------------------
(***************************************************************************)
(* Proofs about SequencerReader for any heights, look-ahead, number of     *)
(* concurrent fetches and channel capacity: the memory of the reader is    *)
(* bounded, and the reader implements OrderedFeed.                         *)
(***************************************************************************)
EXTENDS SequencerReader, SequenceTheorems, FiniteSetTheorems, TLAPS

-----------------------------------------------------------------------------
(* The inductive invariant *)

TypeOK ==
    /\ task \in {"init", "run", "ok", "err"}
    /\ heights \in [rollupExpects : Nat \ {0}, greatestRequested : Nat,
                    latestObserved : 0..LastHeight]
    /\ inProgress \in SUBSET Nat
    /\ cache \in [inner : SUBSET Nat, nextHeight : Nat \ {0}]
    /\ enqueued \in Nat
    /\ softBlocks \in Seq(Nat \ {0})
    /\ sequencer \in 0..LastHeight
    /\ expected \in Nat \ {0} /\ executing \in Nat

(* Fetches are started within the look-ahead of the height the rollup      *)
(* expects, as many as there is room for.                                  *)
FetchInv ==
    /\ IsFiniteSet(inProgress) /\ Cardinality(inProgress) <= MaxInFlight
    /\ \A h \in inProgress : NotTooFarAhead(h)

(* The cache begins at its next height, which is not behind the height the *)
(* rollup was last seen to expect, and ends within the look-ahead.         *)
CacheInv ==
    /\ heights.rollupExpects <= cache.nextHeight
    /\ \A h \in cache.inner : h >= cache.nextHeight /\ NotTooFarAhead(h)

(* What lies between the block that waits for room and the next height is  *)
(* behind the executor.                                                    *)
EnqueuedInv ==
    enqueued # 0 =>
      /\ ~PastStopHeight(enqueued)
      /\ enqueued < cache.nextHeight
      /\ cache.nextHeight = enqueued + 1 \/ cache.nextHeight <= expected

ExecutorInv ==
    /\ executing # 0 => executing >= expected
    /\ task = "init" =>
         /\ enqueued = 0 /\ inProgress = {} /\ cache.inner = {}
         /\ cache.nextHeight <= expected /\ heights.rollupExpects <= expected

IInv == TypeOK /\ FetchInv /\ CacheInv /\ EnqueuedInv /\ ExecutorInv

-----------------------------------------------------------------------------
(* Lemmas about the stream of fetches *)

(* poll_next starts fetches for the next heights without a gap, no more    *)
(* than there is room for, all of them within the look-ahead.              *)
LEMMA FetchesStartedInterval ==
    ASSUME TypeOK, FetchInv
    PROVE  /\ IsFiniteSet(FetchesStarted)
           /\ Cardinality(inProgress) \in Nat /\ Cardinality(FetchesStarted) \in Nat
           /\ Cardinality(FetchesStarted) <= MaxInFlight - Cardinality(inProgress)
           /\ FetchesStarted \in SUBSET Nat
           /\ \A h \in FetchesStarted : NotTooFarAhead(h)
           /\ FetchesStarted # {} => Max(FetchesStarted) \in FetchesStarted
<1> DEFINE a == PotentialHeight
           k == MaxInFlight - Cardinality(inProgress)
           l == heights.latestObserved
           r == heights.rollupExpects + MaxAhead - 1
           s == IF StopHeight = 0 THEN l ELSE StopHeight
           m1 == IF l <= r THEN l ELSE r
           m2 == IF m1 <= s THEN m1 ELSE s
           m == IF m2 <= a + k - 1 THEN m2 ELSE a + k - 1
<1>1. Cardinality(inProgress) \in Nat
  BY FS_CardinalityType DEF FetchInv
<1>2. a \in Nat /\ k \in Nat /\ l \in Nat /\ r \in Nat /\ s \in Nat
  BY <1>1, ReaderAssumption DEF TypeOK, FetchInv, PotentialHeight
<1>3. FetchesStarted = {h \in a..l : h <= r /\ h <= s /\ h < a + k}
  <2>1. \A h \in a..l : /\ NotTooFarAhead(h) <=> h <= r
                        /\ ~PastStopHeight(h) <=> h <= s
                        /\ h - a < k <=> h < a + k
    <3> SUFFICES ASSUME NEW h \in a..l
                 PROVE  /\ NotTooFarAhead(h) <=> h <= r
                        /\ ~PastStopHeight(h) <=> h <= s
                        /\ h - a < k <=> h < a + k
      OBVIOUS
    <3>1. h \in Nat /\ h <= l
      BY <1>2
    <3>2. NotTooFarAhead(h) <=> h <= r
      BY <1>2, <3>1, ReaderAssumption DEF NotTooFarAhead, TypeOK
    <3>3. ~PastStopHeight(h) <=> h <= s
      BY <1>2, <3>1, ReaderAssumption DEF PastStopHeight
    <3> HIDE DEF a, k, r, s
    <3>4. h - a < k <=> h < a + k
      BY <1>2, <3>1
    <3> QED BY <3>2, <3>3, <3>4
  <2> HIDE DEF r, s
  <2> QED BY <2>1 DEF FetchesStarted, FetchableHeights
<1> HIDE DEF a, k, l, r, s
<1>4. FetchesStarted = a..m /\ m \in Int /\ m <= a + k - 1
  BY <1>2, <1>3
<1> HIDE DEF m
<1>5. IsFiniteSet(FetchesStarted)
  BY <1>2, <1>4, FS_Interval
<1>6. Cardinality(FetchesStarted) = IF a > m THEN 0 ELSE m - a + 1
  BY <1>2, <1>4, FS_Interval
<1>7. FetchesStarted # {} => Max(FetchesStarted) \in FetchesStarted
  <2> SUFFICES ASSUME FetchesStarted # {} PROVE Max(FetchesStarted) \in FetchesStarted
    OBVIOUS
  <2>1. m \in FetchesStarted /\ \A y \in FetchesStarted : m >= y
    BY <1>2, <1>4
  <2> QED BY <2>1 DEF Max
<1>8. FetchesStarted \in SUBSET Nat
  BY <1>2, <1>4
<1>9. \A h \in FetchesStarted : NotTooFarAhead(h)
  BY DEF FetchesStarted, FetchableHeights
<1> QED BY <1>1, <1>2, <1>4, <1>5, <1>6, <1>7, <1>8, <1>9 DEF k

(* Starting fetches keeps the number of fetches within its bound.          *)
LEMMA FetchesStartedBounded ==
    ASSUME TypeOK, FetchInv
    PROVE  /\ IsFiniteSet(inProgress \cup FetchesStarted)
           /\ Cardinality(inProgress \cup FetchesStarted) <= MaxInFlight
           /\ inProgress \cup FetchesStarted \in SUBSET Nat
           /\ Requested(FetchesStarted) \in
                [rollupExpects : Nat \ {0}, greatestRequested : Nat,
                 latestObserved : 0..LastHeight]
           /\ Requested(FetchesStarted).rollupExpects = heights.rollupExpects
<1> DEFINE F == FetchesStarted
<1>1. /\ IsFiniteSet(F) /\ IsFiniteSet(inProgress)
      /\ Cardinality(inProgress) \in Nat /\ Cardinality(F) \in Nat
      /\ Cardinality(F) <= MaxInFlight - Cardinality(inProgress)
      /\ F \in SUBSET Nat
      /\ F # {} => Max(F) \in F
  BY FetchesStartedInterval DEF FetchInv
<1> HIDE DEF F
<1>2. /\ IsFiniteSet(inProgress \cup F)
      /\ Cardinality(inProgress \cup F) =
           Cardinality(inProgress) + Cardinality(F) - Cardinality(inProgress \cap F)
  BY <1>1, FS_Union
<1>3. Cardinality(inProgress \cap F) \in Nat
  BY <1>1, FS_Intersection, FS_CardinalityType
<1>4. Cardinality(inProgress \cup F) <= MaxInFlight
  BY <1>1, <1>2, <1>3, ReaderAssumption
<1>5. inProgress \cup F \in SUBSET Nat
  BY <1>1 DEF TypeOK
<1>6. /\ Requested(F) \in [rollupExpects : Nat \ {0}, greatestRequested : Nat,
                           latestObserved : 0..LastHeight]
      /\ Requested(F).rollupExpects = heights.rollupExpects
  BY <1>1 DEF Requested, TypeOK
<1> QED BY <1>2, <1>4, <1>5, <1>6 DEF F

-----------------------------------------------------------------------------
(* Every action preserves the invariant *)

(* initialize() and try_from_parts: both heights become the expected one.  *)
LEMMA InitializeStep == ASSUME IInv, Initialize PROVE IInv'
<1>1. /\ task' = "run" /\ inProgress' = {} /\ enqueued' = 0
      /\ heights' = [heights EXCEPT !.rollupExpects = expected]
      /\ cache' = [cache EXCEPT !.nextHeight = expected]
      /\ cache.inner = {}
      /\ UNCHANGED <<softBlocks, sequencer, expected, executing>>
  BY DEF IInv, ExecutorInv, Initialize, executorVars
<1>2. TypeOK'
  BY <1>1 DEF IInv, TypeOK
<1>3. FetchInv'
  BY <1>1, FS_EmptySet, ReaderAssumption DEF FetchInv
<1>4. CacheInv'
  BY <1>1 DEF IInv, TypeOK, CacheInv
<1>5. EnqueuedInv' /\ ExecutorInv'
  BY <1>1 DEF IInv, EnqueuedInv, ExecutorInv
<1> QED BY <1>2, <1>3, <1>4, <1>5 DEF IInv

(* Steps that leave the reader's data alone.                               *)
LEMMA TaskStep ==
    ASSUME IInv, task' \in {task, "ok", "err"},
           UNCHANGED <<heights, inProgress, cache, enqueued>>,
           softBlocks' \in Seq(Nat \ {0}), sequencer' \in 0..LastHeight,
           expected' \in Nat \ {0}, expected' >= expected,
           executing' \in Nat, executing' # 0 => executing' >= expected'
    PROVE  IInv'
<1>1. TypeOK'
  BY DEF IInv, TypeOK
<1>2. FetchInv'
  BY DEF IInv, FetchInv, NotTooFarAhead
<1>3. CacheInv'
  BY DEF IInv, CacheInv, NotTooFarAhead
<1>4. EnqueuedInv'
  BY DEF IInv, TypeOK, EnqueuedInv, PastStopHeight
<1>5. ExecutorInv'
  BY DEF IInv, TypeOK, ExecutorInv
<1> QED BY <1>1, <1>2, <1>3, <1>4, <1>5 DEF IInv

(* The steps of the environment and the ends of the task.                  *)
LEMMA OuterSteps ==
    ASSUME IInv, Return \/ Fail \/ ProduceBlock \/ TakeSoftBlock \/ CommitSoftBlock
                 \/ CommitFirmBlock \/ CancelReaders \/ UNCHANGED vars
    PROVE  IInv'
<1> USE DEF executorVars, readerVars
<1>1. /\ softBlocks \in Seq(Nat \ {0}) /\ sequencer \in 0..LastHeight
      /\ expected \in Nat \ {0} /\ expected >= expected /\ executing \in Nat
      /\ executing # 0 => executing >= expected
  BY DEF IInv, TypeOK, ExecutorInv
<1>2. CASE Return \/ Fail
  BY <1>1, <1>2, TaskStep DEF Return, Fail
<1>3. CASE ProduceBlock
  <2>1. sequencer' \in 0..LastHeight
    BY <1>1, <1>3, ReaderAssumption DEF ProduceBlock
  <2> QED BY <1>1, <1>3, <2>1, TaskStep DEF ProduceBlock
<1>4. CASE TakeSoftBlock
  <2>1. softBlocks' \in Seq(Nat \ {0}) /\ Head(softBlocks) \in Nat \ {0}
    BY <1>1, <1>4, HeadTailProperties DEF TakeSoftBlock
  <2>2. executing' # 0 => executing' >= expected
    BY <1>1, <1>4, <2>1 DEF TakeSoftBlock
  <2>3. executing' \in Nat
    BY <1>1, <1>4, <2>1 DEF TakeSoftBlock
  <2> QED BY <1>1, <1>4, <2>1, <2>2, <2>3, TaskStep DEF TakeSoftBlock
<1>5. CASE CommitSoftBlock
  <2>1. expected' \in Nat \ {0} /\ expected' >= expected
    BY <1>1, <1>5 DEF CommitSoftBlock
  <2> QED BY <1>1, <1>5, <2>1, TaskStep DEF CommitSoftBlock
<1>6. CASE CommitFirmBlock
  <2>1. expected' \in Nat \ {0} /\ expected' >= expected
    BY <1>1, <1>6 DEF CommitFirmBlock
  <2> QED BY <1>1, <1>6, <2>1, TaskStep DEF CommitFirmBlock
<1>7. CASE CancelReaders
  BY <1>1, <1>7, TaskStep DEF CancelReaders
<1>8. CASE UNCHANGED vars
  BY <1>1, <1>8, TaskStep DEF vars
<1> QED BY <1>2, <1>3, <1>4, <1>5, <1>6, <1>7, <1>8

(* The enqueued block goes into the channel, or the channel is closed.     *)
LEMMA SendEnqueuedStep == ASSUME IInv, SendEnqueued PROVE IInv'
<1>1. /\ UNCHANGED <<heights, inProgress, cache, sequencer, expected, executing>>
      /\ task = "run"
      /\ \/ task' = "err" /\ UNCHANGED <<enqueued, softBlocks>>
         \/ /\ softBlocks' = Append(softBlocks, enqueued) /\ enqueued # 0
            /\ enqueued' = 0 /\ task' = task
  BY DEF SendEnqueued, Iterate, executorVars
<1>2. softBlocks' \in Seq(Nat \ {0}) /\ enqueued' \in Nat
  <2>1. softBlocks \in Seq(Nat \ {0}) /\ enqueued \in Nat
    BY DEF IInv, TypeOK
  <2>2. enqueued # 0 => Append(softBlocks, enqueued) \in Seq(Nat \ {0})
    BY <2>1, AppendProperties
  <2> QED BY SMTT(30), <1>1, <2>1, <2>2
<1>3. TypeOK'
  BY <1>1, <1>2 DEF IInv, TypeOK
<1>4. FetchInv' /\ CacheInv'
  BY <1>1 DEF IInv, FetchInv, CacheInv, NotTooFarAhead
<1>5. EnqueuedInv' /\ ExecutorInv'
  BY <1>1 DEF IInv, EnqueuedInv, ExecutorInv, PastStopHeight
<1> QED BY <1>3, <1>4, <1>5 DEF IInv

(* update_next_expected_height moves the stream and the cache forward.     *)
LEMMA UpdateNextExpectedHeightStep == ASSUME IInv, UpdateNextExpectedHeight PROVE IInv'
<1> DEFINE n == IF expected > cache.nextHeight THEN expected ELSE cache.nextHeight
           r == IF expected > heights.rollupExpects THEN expected ELSE heights.rollupExpects
<1>1. /\ task = "run" /\ task' = task
      /\ UNCHANGED <<inProgress, enqueued, softBlocks, sequencer, expected, executing>>
      /\ heights.rollupExpects \in Nat /\ cache.nextHeight \in Nat /\ expected \in Nat
      /\ cache.nextHeight > 0 /\ expected > 0 /\ heights.rollupExpects <= cache.nextHeight
      /\ inProgress \in SUBSET Nat /\ cache.inner \in SUBSET Nat
  BY DEF IInv, TypeOK, CacheInv, UpdateNextExpectedHeight, Iterate
<1>2. /\ cache' = [inner |-> {i \in cache.inner : i >= expected}, nextHeight |-> n]
      /\ heights' = [heights EXCEPT !.rollupExpects = r]
      /\ heights'.rollupExpects = r
  BY <1>1 DEF IInv, TypeOK, UpdateNextExpectedHeight, DropObsolete
<1>3. TypeOK'
  BY <1>1, <1>2 DEF IInv, TypeOK
<1>4. \A h \in Nat : NotTooFarAhead(h) => NotTooFarAhead(h)'
  BY <1>1, <1>2, ReaderAssumption DEF NotTooFarAhead
<1>5. FetchInv'
  BY <1>1, <1>4 DEF IInv, FetchInv
<1>6. CacheInv'
  BY <1>1, <1>2, <1>4 DEF IInv, CacheInv
<1>7. EnqueuedInv'
  BY <1>1, <1>2 DEF IInv, TypeOK, EnqueuedInv, PastStopHeight
<1>8. ExecutorInv'
  BY <1>1 DEF IInv, ExecutorInv
<1> QED BY <1>3, <1>5, <1>6, <1>7, <1>8 DEF IInv

(* BlockCache::pop, then send_to_executor: a block that finds no room is   *)
(* right before the next height.                                           *)
LEMMA SendToExecutorStep == ASSUME IInv, SendToExecutor PROVE IInv'
<1>1. /\ task = "run" /\ task' \in {"run", "err"} /\ enqueued = 0
      /\ ~PastStopHeight(cache.nextHeight)
      /\ cache.nextHeight \in Nat \ {0} /\ cache.inner \in SUBSET Nat
      /\ cache' = [inner |-> cache.inner \ {cache.nextHeight},
                   nextHeight |-> cache.nextHeight + 1]
      /\ UNCHANGED <<heights, inProgress, sequencer, expected, executing>>
      /\ enqueued' \in {0, cache.nextHeight}
      /\ softBlocks' \in {softBlocks, Append(softBlocks, cache.nextHeight)}
  BY DEF IInv, TypeOK, SendToExecutor, Iterate, NextBlockReady, HasReachedStopHeight,
         executorVars
<1>2. softBlocks' \in Seq(Nat \ {0})
  <2>1. softBlocks \in Seq(Nat \ {0})
    BY DEF IInv, TypeOK
  <2>2. Append(softBlocks, cache.nextHeight) \in Seq(Nat \ {0})
    BY <1>1, <2>1, AppendProperties
  <2> QED BY <1>1, <2>1, <2>2
<1>3. TypeOK'
  BY <1>1, <1>2 DEF IInv, TypeOK
<1>4. FetchInv'
  BY <1>1 DEF IInv, FetchInv, NotTooFarAhead
<1>5. CacheInv'
  BY <1>1 DEF IInv, TypeOK, CacheInv, NotTooFarAhead
<1>6. EnqueuedInv'
  BY <1>1 DEF EnqueuedInv, PastStopHeight
<1>7. ExecutorInv'
  BY <1>1 DEF IInv, ExecutorInv
<1> QED BY <1>3, <1>4, <1>5, <1>6, <1>7 DEF IInv

(* poll_next: fetches are started, and one that is done goes into the      *)
(* cache unless it is too old.                                             *)
LEMMA PollSteps ==
    ASSUME IInv, PollBlockStream \/ \E h \in Heights : BlockFetched(h)
    PROVE  IInv'
<1> DEFINE P == inProgress \cup FetchesStarted
<1>1. /\ task = "run" /\ task' = task /\ heights' = Requested(FetchesStarted)
      /\ UNCHANGED <<enqueued, softBlocks, sequencer, expected, executing>>
  BY DEF PollBlockStream, BlockFetched, Iterate, executorVars
<1>2. /\ TypeOK /\ FetchInv /\ IsFiniteSet(P) /\ Cardinality(P) <= MaxInFlight
      /\ P \in SUBSET Nat /\ Cardinality(P) \in Nat
      /\ heights' \in [rollupExpects : Nat \ {0}, greatestRequested : Nat,
                       latestObserved : 0..LastHeight]
      /\ heights'.rollupExpects = heights.rollupExpects
  BY <1>1, FetchesStartedBounded, FS_CardinalityType DEF IInv
<1>3. \A h \in P : NotTooFarAhead(h)
  BY FetchesStartedInterval DEF IInv, FetchInv
<1> HIDE DEF P
<1>4. \A h \in Nat : NotTooFarAhead(h)' <=> NotTooFarAhead(h)
  BY <1>2 DEF NotTooFarAhead
<1>5. CASE PollBlockStream
  <2>1. inProgress' = P /\ cache' = cache
    BY <1>5 DEF PollBlockStream, P
  <2>2. TypeOK'
    BY <1>1, <1>2, <2>1 DEF TypeOK
  <2>3. FetchInv'
    BY <1>2, <1>3, <1>4, <2>1 DEF FetchInv
  <2>4. CacheInv'
    BY <1>2, <1>4, <2>1 DEF IInv, TypeOK, CacheInv
  <2>5. EnqueuedInv' /\ ExecutorInv'
    BY <1>1, <2>1 DEF IInv, EnqueuedInv, ExecutorInv, PastStopHeight
  <2> QED BY <2>2, <2>3, <2>4, <2>5 DEF IInv
<1>6. CASE \E h \in Heights : BlockFetched(h)
  <2>1. PICK h : h \in inProgress /\ inProgress' = P \ {h} /\ cache' = Insert(h)
    BY <1>6 DEF BlockFetched, P
  <2>2. h \in Nat /\ NotTooFarAhead(h)
    BY <2>1 DEF IInv, TypeOK, FetchInv
  <2>3. /\ cache'.nextHeight = cache.nextHeight
        /\ cache' \in [inner : SUBSET Nat, nextHeight : Nat \ {0}]
        /\ \A i \in cache'.inner : i \in cache.inner \/ (i = h /\ h >= cache.nextHeight)
    BY <1>2, <2>1, <2>2 DEF TypeOK, Insert
  <2>4. IsFiniteSet(P \ {h}) /\ Cardinality(P \ {h}) <= MaxInFlight
    BY <1>2, FS_RemoveElement, ReaderAssumption
  <2>5. TypeOK'
    BY <1>1, <1>2, <2>1, <2>3 DEF TypeOK
  <2>6. FetchInv'
    BY <1>2, <1>3, <1>4, <2>1, <2>4 DEF FetchInv
  <2>7. CacheInv'
    BY <1>2, <1>4, <2>2, <2>3 DEF IInv, TypeOK, CacheInv
  <2>8. EnqueuedInv' /\ ExecutorInv'
    BY <1>1, <2>3 DEF IInv, EnqueuedInv, ExecutorInv, PastStopHeight
  <2> QED BY <2>5, <2>6, <2>7, <2>8 DEF IInv
<1> QED BY <1>5, <1>6

(* handle_latest_height records a newer height.                            *)
LEMMA HandleLatestHeightStep ==
    ASSUME IInv, NEW h \in Heights, HandleLatestHeight(h)
    PROVE  IInv'
<1>1. /\ heights' = [heights EXCEPT !.latestObserved = h]
      /\ heights'.rollupExpects = heights.rollupExpects
      /\ UNCHANGED <<task, inProgress, cache, enqueued, softBlocks, sequencer, expected,
                     executing>>
  BY DEF IInv, TypeOK, HandleLatestHeight, executorVars
<1>2. TypeOK'
  <2>1. /\ heights \in [rollupExpects : Nat \ {0}, greatestRequested : Nat,
                      latestObserved : 0..LastHeight]
        /\ h \in 0..LastHeight
    BY ReaderAssumption DEF IInv, TypeOK, Heights
  <2>2. heights' \in [rollupExpects : Nat \ {0}, greatestRequested : Nat,
                      latestObserved : 0..LastHeight]
    BY <1>1, <2>1
  <2> QED BY <1>1, <2>2 DEF IInv, TypeOK
<1>3. FetchInv' /\ CacheInv'
  BY <1>1 DEF IInv, FetchInv, CacheInv, NotTooFarAhead
<1>4. EnqueuedInv' /\ ExecutorInv'
  BY <1>1 DEF IInv, EnqueuedInv, ExecutorInv, PastStopHeight
<1> QED BY <1>2, <1>3, <1>4 DEF IInv

-----------------------------------------------------------------------------
(* The theorems *)

(* IInv holds when the executor has started the reader.                    *)
LEMMA InitIInv == Init => IInv
<1> SUFFICES ASSUME Init PROVE IInv
  OBVIOUS
<1>1. TypeOK
  BY ReaderAssumption DEF Init, TypeOK
<1>2. FetchInv
  BY FS_EmptySet, ReaderAssumption DEF Init, FetchInv
<1>3. CacheInv /\ EnqueuedInv /\ ExecutorInv
  BY ReaderAssumption DEF Init, CacheInv, EnqueuedInv, ExecutorInv
<1> QED BY <1>1, <1>2, <1>3 DEF IInv

(* Every step of the reader and of the executor keeps the invariant.       *)
LEMMA NextIInv == IInv /\ [Next]_vars => IInv'
<1> SUFFICES ASSUME IInv, [Next]_vars PROVE IInv'
  OBVIOUS
<1>1. CASE Initialize
  BY <1>1, InitializeStep
<1>2. CASE \/ Return \/ Fail \/ ProduceBlock \/ TakeSoftBlock \/ CommitSoftBlock
           \/ CommitFirmBlock \/ CancelReaders \/ UNCHANGED vars
  BY <1>2, OuterSteps
<1>3. CASE SendEnqueued
  BY <1>3, SendEnqueuedStep
<1>4. CASE UpdateNextExpectedHeight
  BY <1>4, UpdateNextExpectedHeightStep
<1>5. CASE SendToExecutor
  BY <1>5, SendToExecutorStep
<1>6. CASE PollBlockStream \/ \E h \in Heights : BlockFetched(h)
  BY <1>6, PollSteps
<1>7. CASE \E h \in Heights : HandleLatestHeight(h)
  BY <1>7, HandleLatestHeightStep
<1> QED BY <1>1, <1>2, <1>3, <1>4, <1>5, <1>6, <1>7 DEF Next, ReaderStep, Finished

(* IInv is an invariant of the reader.                                     *)
THEOREM Invariance == Spec => []IInv
BY InitIInv, NextIInv, PTL DEF Spec

(* The state of the reader keeps its types.                                *)
THEOREM TypeCorrect == Spec => []TypeOK
<1>1. IInv => TypeOK
  BY DEF IInv
<1> QED BY <1>1, Invariance, PTL

(* However slow the executor and however unordered the answers, the reader *)
(* holds at most MaxAhead blocks and MaxInFlight requests: the cache ends  *)
(* below the look-ahead and begins at its next height, which is never      *)
(* behind the height from which the look-ahead is counted.                 *)
THEOREM ReaderMemoryBoundedHolds == Spec => []ReaderMemoryBounded
<1>1. IInv => ReaderMemoryBounded
  <2> SUFFICES ASSUME IInv PROVE Cardinality(cache.inner) <= MaxAhead
    BY DEF IInv, FetchInv, ReaderMemoryBounded
  <2> DEFINE a == cache.nextHeight
             b == heights.rollupExpects + MaxAhead - 1
  <2>1. a \in Nat /\ b \in Nat /\ b - a + 1 <= MaxAhead /\ MaxAhead \in Nat
    BY ReaderAssumption DEF IInv, TypeOK, CacheInv
  <2>2. cache.inner \in SUBSET (a..b)
    BY ReaderAssumption DEF IInv, TypeOK, CacheInv, NotTooFarAhead
  <2> HIDE DEF a, b
  <2>3. IsFiniteSet(a..b) /\ Cardinality(a..b) <= MaxAhead
    <3>1. /\ IsFiniteSet(a..b)
          /\ Cardinality(a..b) = IF a > b THEN 0 ELSE b - a + 1
      BY <2>1, FS_Interval
    <3> QED BY <2>1, <3>1
  <2>4. IsFiniteSet(cache.inner) /\ Cardinality(cache.inner) <= Cardinality(a..b)
    BY <2>2, <2>3, FS_Subset
  <2>5. Cardinality(cache.inner) \in Nat /\ Cardinality(a..b) \in Nat
    BY <2>3, <2>4, FS_CardinalityType
  <2> QED BY <2>1, <2>3, <2>4, <2>5
<1> QED BY <1>1, Invariance, PTL

(* A step of the reader or of the executor is a step of the ordered feed   *)
(* or leaves it unchanged.                                                 *)
LEMMA StepSimulation ==
    IInv /\ [Next]_vars => [Feed!Next]_(Feed!vars)
<1> SUFFICES ASSUME IInv, Next PROVE Feed!Next \/ UNCHANGED Feed!vars
  BY DEF vars, Feed!vars
<1> USE DEF executorVars, readerVars
<1>1. /\ cache.nextHeight \in Nat /\ cache.nextHeight # 0 /\ expected \in Nat
      /\ enqueued \in Nat /\ heights.rollupExpects \in Nat
  BY DEF IInv, TypeOK
<1>2. CASE Initialize
  <2>1. /\ task = "init" /\ task' = "run" /\ enqueued = 0 /\ enqueued' = 0
        /\ cache.nextHeight <= expected /\ cache'.nextHeight = expected
        /\ UNCHANGED <<softBlocks, expected, executing, cancelled>>
    BY <1>2 DEF IInv, TypeOK, ExecutorInv, Initialize
  <2>2. CASE cache.nextHeight = expected
    BY <2>1, <2>2 DEF Feed!vars
  <2>3. CASE cache.nextHeight # expected
    BY <1>1, <2>1, <2>3 DEF Feed!Next, Feed!Skip
  <2> QED BY <2>2, <2>3
<1>3. CASE Return
  BY <1>3 DEF Return, HasReachedStopHeight, PastStopHeight, Feed!Next, Feed!Finish,
              Feed!PastStopHeight
<1>4. CASE Fail
  BY <1>4 DEF Fail, Feed!Next, Feed!Finish
<1>5. CASE SendEnqueued
  <2>1. /\ task = "run" /\ enqueued # 0
        /\ ~PastStopHeight(enqueued) /\ enqueued < cache.nextHeight
        /\ cache.nextHeight = enqueued + 1 \/ cache.nextHeight <= expected
        /\ UNCHANGED <<cache, expected, executing, cancelled>>
    BY <1>5 DEF IInv, EnqueuedInv, SendEnqueued, Iterate
  <2>2. CASE cancelled
    BY <1>5, <2>1, <2>2 DEF SendEnqueued, Feed!Next, Feed!Finish
  <2>3. CASE ~cancelled
    <3>1. /\ Len(softBlocks) < Capacity /\ softBlocks' = Append(softBlocks, enqueued)
          /\ enqueued' = 0 /\ task' = task
      BY <1>5, <2>3 DEF SendEnqueued
    <3>2. cache'.nextHeight \in {enqueued + 1} \cup enqueued + 1 .. expected
      BY <1>1, <2>1
    <3> QED BY <2>1, <2>3, <3>1, <3>2
            DEF PastStopHeight, Feed!Next, Feed!Send, Feed!PastStopHeight
  <2> QED BY <2>2, <2>3
<1>6. CASE UpdateNextExpectedHeight
  <2>1. /\ task = "run"
        /\ cache'.nextHeight =
             IF expected > cache.nextHeight THEN expected ELSE cache.nextHeight
        /\ UNCHANGED <<task, enqueued, softBlocks, expected, executing, cancelled>>
    BY <1>6 DEF UpdateNextExpectedHeight, DropObsolete, Iterate
  <2>2. CASE enqueued # 0 \/ ~(expected > cache.nextHeight)
    BY <2>1, <2>2 DEF Feed!vars
  <2>3. CASE enqueued = 0 /\ expected > cache.nextHeight
    BY <1>1, <2>1, <2>3 DEF Feed!Next, Feed!Skip
  <2> QED BY <2>2, <2>3
<1>7. CASE SendToExecutor
  <2>1. /\ task = "run" /\ enqueued = 0 /\ ~PastStopHeight(cache.nextHeight)
        /\ cache'.nextHeight = cache.nextHeight + 1
        /\ UNCHANGED <<expected, executing, cancelled>>
    BY <1>7 DEF SendToExecutor, Iterate, NextBlockReady, HasReachedStopHeight
  <2>2. CASE cancelled
    BY <1>7, <2>1, <2>2 DEF SendToExecutor, Feed!Next, Feed!Finish
  <2>3. CASE ~cancelled /\ enqueued' = cache.nextHeight
    BY <1>1, <1>7, <2>1, <2>3 DEF SendToExecutor, Feed!vars
  <2>4. CASE ~cancelled /\ enqueued' # cache.nextHeight
    <3>1. /\ Len(softBlocks) < Capacity /\ enqueued' = 0 /\ task' = task
          /\ softBlocks' = Append(softBlocks, cache.nextHeight)
      BY <1>7, <2>1, <2>4 DEF SendToExecutor
    <3> QED BY <2>1, <2>4, <3>1
            DEF PastStopHeight, Feed!Next, Feed!Send, Feed!PastStopHeight
  <2> QED BY <2>2, <2>3, <2>4
<1>8. CASE \/ PollBlockStream \/ ProduceBlock \/ Finished
           \/ \E h \in Heights : BlockFetched(h) \/ HandleLatestHeight(h)
  <2>1. /\ cache'.nextHeight = cache.nextHeight
        /\ UNCHANGED <<task, enqueued, softBlocks, expected, executing, cancelled>>
    BY <1>8 DEF IInv, TypeOK, PollBlockStream, ProduceBlock, Finished, BlockFetched,
                HandleLatestHeight, Insert, vars
  <2> QED BY <2>1 DEF Feed!vars
<1>9. CASE TakeSoftBlock
  BY <1>9 DEF TakeSoftBlock, Feed!Next, Feed!Take
<1>10. CASE CommitSoftBlock
  BY <1>10 DEF CommitSoftBlock, Feed!Next, Feed!Commit
<1>11. CASE CommitFirmBlock
  BY <1>11 DEF CommitFirmBlock, Feed!Next, Feed!Overtake
<1>12. CASE CancelReaders
  BY <1>12 DEF CancelReaders, Feed!Next, Feed!Cancel
<1> QED
  BY <1>2, <1>3, <1>4, <1>5, <1>6, <1>7, <1>8, <1>9, <1>10, <1>11, <1>12
  DEF Next, ReaderStep

(* The reader implements OrderedFeed: blocks fetched in any order leave it *)
(* in order, from the height the executor expects, and a height is left    *)
(* out only if the executor has passed it.                                 *)
THEOREM ImplementsOrderedFeed == Spec => RefinesOrderedFeed
<1>1. Init => Feed!Init
  BY DEF Init, Feed!Init
<1> QED BY <1>1, StepSimulation, Invariance, PTL DEF Spec, RefinesOrderedFeed, Feed!Spec

=============================================================================
