------------------------ MODULE CelestiaReaderProofs ------------------------
(***************************************************************************)
(* Proofs about CelestiaReader for any blobs that satisfy the inclusion    *)
(* assumption and any window, number of tasks and channel capacity: a      *)
(* Conductor that starts again finds its next block, and the reader        *)
(* implements OrderedFeed.                                                 *)
(***************************************************************************)
EXTENDS CelestiaReader, SequenceTheorems, TLAPS

-----------------------------------------------------------------------------
(* The inductive invariant *)

(* blocks that were reconstructed from the Celestia height they name *)
Block ==
    {b \in [height : Nat \ {0}, valid : BOOLEAN, celestia : 1..Len(Blobs)] :
       b.height \in Heights(b.celestia)}

AtMostOne(s) == s = << >> \/ \E b \in Block : s = <<b>>

TypeOK ==
    /\ task \in {"run", "ok", "err"}
    /\ cache = [inner |-> cache.inner, nextHeight |-> cache.nextHeight]
    /\ cache.nextHeight \in Nat \ {0}
    /\ firmBlocks \in Seq(Block)
    /\ AtMostOne(enqueued) /\ AtMostOne(executing)
    /\ expected \in Nat \ {0} /\ search \in Nat

(* the cache holds a block at its own height *)
CacheInv ==
    \A h \in DOMAIN cache.inner : cache.inner[h] \in Block /\ cache.inner[h].height = h

(* The block in hand, the channel, the block that waits for room and the   *)
(* next height of the cache follow each other without a gap.               *)
FeedInv ==
    /\ executing # << >> => Head(executing).height = expected
    /\ \A i \in 1..Len(firmBlocks) :
         firmBlocks[i].height = expected + Len(executing) + i - 1
    /\ enqueued # << >> =>
         /\ Head(enqueued).height = expected + Len(executing) + Len(firmBlocks)
         /\ ~PastStopHeight(Head(enqueued).height)
    /\ task = "run" =>
         cache.nextHeight = expected + Len(executing) + Len(firmBlocks) + Len(enqueued)

IInv == TypeOK /\ CacheInv /\ FeedInv /\ SearchHeightReachesNextBlock

-----------------------------------------------------------------------------
(* Lemmas about blocks *)

(* A block in hand, or one that waits for room.                            *)
LEMMA AtMostOneProperties ==
    ASSUME NEW s, AtMostOne(s)
    PROVE  /\ Len(s) \in Nat
           /\ s = << >> => Len(s) = 0
           /\ s # << >> => Len(s) = 1 /\ Head(s) \in Block /\ s = <<Head(s)>>
<1>1. CASE s = << >>
  BY <1>1
<1>2. CASE s # << >>
  <2>1. PICK b \in Block : s = <<b>>
    BY <1>2 DEF AtMostOne
  <2>2. Len(s) = 1 /\ Head(s) = b
    BY <2>1
  <2> QED BY <1>2, <2>1, <2>2
<1> QED BY <1>1, <1>2

(* A block's height is positive.                                           *)
LEMMA BlockHeight ==
    ASSUME NEW b \in Block
    PROVE  /\ b.height \in Nat /\ b.height # 0 /\ b.celestia \in Nat
           /\ b.celestia \in 1..Len(Blobs) /\ b.height \in Heights(b.celestia)
<1>1. b.height \in Nat \ {0} /\ b.celestia \in 1..Len(Blobs)
      /\ b.height \in Heights(b.celestia)
  BY DEF Block
<1>2. Len(Blobs) \in Nat
  BY InclusionAssumption, LenProperties
<1> QED BY <1>1, <1>2

(* reconstruct_blocks_from_verified_blobs makes blocks of the Celestia     *)
(* height that the task has read.                                          *)
LEMMA ReconstructedBlocks ==
    ASSUME NEW c
    PROVE  Reconstructed(c) \subseteq Block
<1> SUFFICES ASSUME NEW b \in Verified(c)
             PROVE  [height |-> b.height, valid |-> b.valid, celestia |-> c] \in Block
  BY DEF Reconstructed
<1>1. c \in 1..Len(Blobs) /\ b \in Blobs[c]
  BY DEF Verified
<1>2. Blobs[c] \in SUBSET [height : Nat \ {0}, valid : BOOLEAN]
  BY <1>1, InclusionAssumption, ElementOfSeq
<1>3. b \in [height : Nat \ {0}, valid : BOOLEAN]
  BY <1>1, <1>2
<1>4. b.height \in Heights(c)
  BY <1>1 DEF Heights
<1> QED BY <1>1, <1>3, <1>4 DEF Block

(* cache_reconstructed_blocks leaves the next height alone and puts every  *)
(* new block at its own height.                                            *)
LEMMA CacheReconstructed ==
    ASSUME TypeOK, CacheInv, NEW blocks \in SUBSET Block,
           cache' \in CacheReconstructedBlocks(blocks)
    PROVE  /\ cache' = [inner |-> cache'.inner, nextHeight |-> cache.nextHeight]
           /\ CacheInv'
<1> DEFINE new == NewHeights(blocks)
<1>1. PICK f \in [new -> blocks] :
        /\ \A h \in new : f[h].height = h
        /\ cache' = [cache EXCEPT !.inner =
                       [h \in DOMAIN @ \cup new |-> IF h \in new THEN f[h] ELSE @[h]]]
  BY DEF CacheReconstructedBlocks
<1>2. cache' = [inner |-> [h \in DOMAIN cache.inner \cup new |->
                             IF h \in new THEN f[h] ELSE cache.inner[h]],
                nextHeight |-> cache.nextHeight]
  BY <1>1 DEF TypeOK
<1> HIDE DEF new
<1>3. /\ DOMAIN cache'.inner = DOMAIN cache.inner \cup new
      /\ \A h \in DOMAIN cache.inner \cup new :
           cache'.inner[h] = IF h \in new THEN f[h] ELSE cache.inner[h]
  BY <1>2
<1>4. CacheInv'
  BY <1>1, <1>3 DEF CacheInv
<1> QED BY <1>2, <1>4

(* The heights of the blocks in a channel, which is what the feed shows.   *)
HeightsOf(s) == [i \in 1..Len(s) |-> s[i].height]

(* A block that is appended to the channel, or taken from it, is appended  *)
(* to or taken from the heights.                                           *)
LEMMA HeightsOfChannel ==
    ASSUME NEW s \in Seq(Block)
    PROVE  /\ HeightsOf(s) \in Seq(Nat) /\ Len(HeightsOf(s)) = Len(s)
           /\ \A b \in Block : HeightsOf(Append(s, b)) = Append(HeightsOf(s), b.height)
           /\ s # << >> => /\ HeightsOf(Tail(s)) = Tail(HeightsOf(s))
                           /\ Head(HeightsOf(s)) = Head(s).height
                           /\ HeightsOf(s) # << >>
<1>1. ASSUME NEW t \in Seq(Block)
      PROVE  /\ HeightsOf(t) \in Seq(Nat) /\ Len(HeightsOf(t)) = Len(t)
             /\ \A i \in 1..Len(t) : HeightsOf(t)[i] = t[i].height
  <2>1. \A i \in 1..Len(t) : t[i].height \in Nat
    BY ElementOfSeq, BlockHeight
  <2> QED BY <2>1, LenProperties DEF HeightsOf
<1>2. Len(s) \in Nat
  BY LenProperties
<1>3. ASSUME NEW b \in Block
      PROVE  HeightsOf(Append(s, b)) = Append(HeightsOf(s), b.height)
  <2>1. /\ Append(s, b) \in Seq(Block) /\ Len(Append(s, b)) = Len(s) + 1
        /\ \A i \in 1..Len(s) : Append(s, b)[i] = s[i]
        /\ Append(s, b)[Len(s) + 1] = b
    BY AppendProperties
  <2>2. b.height \in Nat
    BY BlockHeight
  <2>3. /\ Append(HeightsOf(s), b.height) \in Seq(Nat)
        /\ Len(Append(HeightsOf(s), b.height)) = Len(s) + 1
        /\ \A i \in 1..Len(s) : Append(HeightsOf(s), b.height)[i] = s[i].height
        /\ Append(HeightsOf(s), b.height)[Len(s) + 1] = b.height
    BY <1>1, <2>2, AppendProperties
  <2>4. /\ HeightsOf(Append(s, b)) \in Seq(Nat)
        /\ Len(HeightsOf(Append(s, b))) = Len(s) + 1
        /\ \A i \in 1..Len(s) + 1 : HeightsOf(Append(s, b))[i] = Append(s, b)[i].height
    BY <1>1, <2>1
  <2>5. \A i \in 1..Len(s) + 1 :
          HeightsOf(Append(s, b))[i] = Append(HeightsOf(s), b.height)[i]
    <3> SUFFICES ASSUME NEW i \in 1..Len(s) + 1
                 PROVE  Append(s, b)[i].height = Append(HeightsOf(s), b.height)[i]
      BY <2>4
    <3>1. CASE i = Len(s) + 1
      BY <2>1, <2>3, <3>1
    <3>2. CASE i # Len(s) + 1
      <4>1. i \in 1..Len(s)
        BY <1>2, <3>2
      <4> QED BY <2>1, <2>3, <4>1
    <3> QED BY <3>1, <3>2
  <2> QED BY <2>3, <2>4, <2>5, SeqEqual
<1>4. ASSUME s # << >>
      PROVE  /\ HeightsOf(Tail(s)) = Tail(HeightsOf(s))
             /\ Head(HeightsOf(s)) = Head(s).height
             /\ HeightsOf(s) # << >>
  <2>1. /\ Tail(s) \in Seq(Block) /\ Len(Tail(s)) = Len(s) - 1 /\ Head(s) = s[1]
        /\ \A i \in 1..Len(Tail(s)) : Tail(s)[i] = s[i + 1]
        /\ Len(s) > 0
    BY <1>2, <1>4, HeadTailProperties, EmptySeq
  <2>2. HeightsOf(s) \in Seq(Nat) /\ Len(HeightsOf(s)) = Len(s)
    BY <1>1
  <2>3. HeightsOf(s) # << >>
    BY <1>2, <2>1, <2>2
  <2>4. /\ Tail(HeightsOf(s)) \in Seq(Nat) /\ Len(Tail(HeightsOf(s))) = Len(s) - 1
        /\ Head(HeightsOf(s)) = HeightsOf(s)[1]
        /\ \A i \in 1..Len(s) - 1 : Tail(HeightsOf(s))[i] = HeightsOf(s)[i + 1]
    BY <2>2, <2>3, HeadTailProperties
  <2>5. /\ HeightsOf(Tail(s)) \in Seq(Nat) /\ Len(HeightsOf(Tail(s))) = Len(s) - 1
        /\ \A i \in 1..Len(s) - 1 : HeightsOf(Tail(s))[i] = Tail(s)[i].height
    BY <1>1, <2>1
  <2>6. \A i \in 1..Len(s) - 1 : HeightsOf(Tail(s))[i] = Tail(HeightsOf(s))[i]
    BY <1>1, <1>2, <2>1, <2>4, <2>5
  <2>7. HeightsOf(Tail(s)) = Tail(HeightsOf(s))
    BY <2>4, <2>5, <2>6, SeqEqual
  <2> QED BY <1>1, <1>2, <2>1, <2>3, <2>4, <2>7
<1> QED BY <1>1, <1>3, <1>4

-----------------------------------------------------------------------------
(* Every action preserves the invariant *)

(* Steps that leave blocks and heights alone; the task may end.            *)
LEMMA OuterStep ==
    ASSUME IInv, task' \in {task, "ok", "err"},
           UNCHANGED <<cache, enqueued, firmBlocks, expected, search, executing>>
    PROVE  IInv'
<1>1. TypeOK' /\ CacheInv'
  BY DEF IInv, TypeOK, CacheInv, AtMostOne
<1>2. FeedInv'
  BY DEF IInv, FeedInv, PastStopHeight
<1>3. SearchHeightReachesNextBlock'
  BY DEF IInv, SearchHeightReachesNextBlock
<1> QED BY <1>1, <1>2, <1>3 DEF IInv

(* A task ends: what it found goes into the cache.                         *)
LEMMA TaskSteps ==
    ASSUME IInv, NEW c \in tasks, TaskDone(c) \/ TaskDropsBlob(c)
    PROVE  IInv'
<1>1. PICK blocks \in SUBSET Block : cache' \in CacheReconstructedBlocks(blocks)
  BY ReconstructedBlocks DEF TaskDone, TaskDropsBlob
<1>2. UNCHANGED <<task, enqueued, firmBlocks, expected, search, executing>>
  BY DEF TaskDone, TaskDropsBlob, executorVars
<1>3. /\ cache' = [inner |-> cache'.inner, nextHeight |-> cache.nextHeight]
      /\ CacheInv'
  BY <1>1, CacheReconstructed DEF IInv
<1>4. cache'.nextHeight = cache.nextHeight
  BY <1>3
<1>5. TypeOK'
  BY <1>2, <1>3, <1>4 DEF IInv, TypeOK, AtMostOne
<1>6. FeedInv'
  BY <1>2, <1>4 DEF IInv, FeedInv, PastStopHeight
<1>7. SearchHeightReachesNextBlock'
  BY <1>2 DEF IInv, SearchHeightReachesNextBlock
<1> QED BY <1>3, <1>5, <1>6, <1>7 DEF IInv

(* The facts about the heights in the pipeline that the steps use.         *)
LEMMA PipelineTypes ==
    ASSUME IInv
    PROVE  /\ expected \in Nat /\ expected # 0 /\ cache.nextHeight \in Nat
           /\ Len(firmBlocks) \in Nat /\ Len(executing) \in Nat /\ Len(enqueued) \in Nat
           /\ firmBlocks \in Seq(Block)
<1>1. firmBlocks \in Seq(Block) /\ AtMostOne(enqueued) /\ AtMostOne(executing)
      /\ expected \in Nat \ {0} /\ cache.nextHeight \in Nat \ {0}
  BY DEF IInv, TypeOK
<1>2. Len(firmBlocks) \in Nat
  BY <1>1, LenProperties
<1> QED BY <1>1, <1>2, AtMostOneProperties

(* A block goes into the channel behind the ones in it.                    *)
LEMMA AppendFirm ==
    ASSUME IInv, NEW b \in Block, firmBlocks' = Append(firmBlocks, b),
           b.height = expected + Len(executing) + Len(firmBlocks),
           UNCHANGED <<expected, executing>>
    PROVE  /\ firmBlocks' \in Seq(Block) /\ Len(firmBlocks') = Len(firmBlocks) + 1
           /\ \A i \in 1..Len(firmBlocks') :
                firmBlocks'[i].height = expected + Len(executing) + i - 1
<1>1. /\ firmBlocks' \in Seq(Block) /\ Len(firmBlocks') = Len(firmBlocks) + 1
      /\ \A i \in 1..Len(firmBlocks) : firmBlocks'[i] = firmBlocks[i]
      /\ firmBlocks'[Len(firmBlocks) + 1] = b
  BY PipelineTypes, AppendProperties
<1>2. \A i \in 1..Len(firmBlocks) :
        firmBlocks[i].height = expected + Len(executing) + i - 1
  BY DEF IInv, FeedInv
<1> QED BY <1>1, <1>2, PipelineTypes

(* The block that waited for room goes into the channel.                   *)
LEMMA SendEnqueuedStep == ASSUME IInv, SendEnqueued PROVE IInv'
<1>1. /\ task = "run" /\ enqueued # << >>
      /\ UNCHANGED <<cache, expected, search, executing>>
  BY DEF SendEnqueued, Select, executorVars
<1>2. CASE task' = "err" /\ UNCHANGED <<firmBlocks, enqueued>>
  BY <1>1, <1>2, OuterStep
<1>3. CASE firmBlocks' = firmBlocks \o enqueued /\ enqueued' = << >> /\ task' = task
  <2> DEFINE b == Head(enqueued)
  <2>1. b \in Block /\ enqueued = <<b>> /\ Len(enqueued) = 1
    BY <1>1, AtMostOneProperties DEF IInv, TypeOK
  <2>2. b.height = expected + Len(executing) + Len(firmBlocks)
    BY <1>1 DEF IInv, FeedInv
  <2>3. firmBlocks' = Append(firmBlocks, b)
    BY <1>3, <2>1, PipelineTypes, AppendIsConcat
  <2> HIDE DEF b
  <2>4. /\ firmBlocks' \in Seq(Block) /\ Len(firmBlocks') = Len(firmBlocks) + 1
        /\ \A i \in 1..Len(firmBlocks') :
             firmBlocks'[i].height = expected + Len(executing) + i - 1
    BY <1>1, <2>1, <2>2, <2>3, AppendFirm
  <2>5. cache.nextHeight = expected + Len(executing) + Len(firmBlocks) + 1
    BY <1>1, <2>1 DEF IInv, FeedInv
  <2>6. TypeOK'
    BY <1>1, <1>3, <2>4 DEF IInv, TypeOK, AtMostOne
  <2>7. cache'.nextHeight = expected' + Len(executing') + Len(firmBlocks') + Len(enqueued')
    BY <1>1, <1>3, <2>4, <2>5, PipelineTypes
  <2>8. FeedInv'
    BY <1>1, <1>3, <2>4, <2>7 DEF IInv, FeedInv
  <2>9. CacheInv' /\ SearchHeightReachesNextBlock'
    BY <1>1 DEF IInv, CacheInv, SearchHeightReachesNextBlock
  <2> QED BY <2>6, <2>8, <2>9 DEF IInv
<1> QED BY <1>2, <1>3 DEF SendEnqueued

(* BlockCache::pop, then forward_block_to_executor.                        *)
LEMMA ForwardBlockStep == ASSUME IInv, ForwardBlockToExecutor PROVE IInv'
<1> DEFINE b == cache.inner[cache.nextHeight]
<1>1. /\ task = "run" /\ enqueued = << >> /\ ~PastStopHeight(cache.nextHeight)
      /\ cache.nextHeight \in DOMAIN cache.inner /\ cache' = Popped
      /\ UNCHANGED <<expected, search, executing>>
  BY DEF ForwardBlockToExecutor, Select, NextBlockReady, HasReachedStopHeight, executorVars
<1>2. b \in Block /\ b.height = cache.nextHeight
  BY <1>1 DEF IInv, CacheInv
<1>3. /\ cache' = [inner |-> cache'.inner, nextHeight |-> cache'.nextHeight]
      /\ cache'.nextHeight = cache.nextHeight + 1
      /\ DOMAIN cache'.inner \subseteq DOMAIN cache.inner
      /\ \A h \in DOMAIN cache'.inner : cache'.inner[h] = cache.inner[h]
  BY <1>1 DEF Popped
<1>4. CacheInv'
  BY <1>3 DEF IInv, CacheInv
<1>5. SearchHeightReachesNextBlock'
  BY <1>1 DEF IInv, SearchHeightReachesNextBlock
<1>6. b.height = expected + Len(executing) + Len(firmBlocks)
  BY <1>1, <1>2, PipelineTypes DEF IInv, FeedInv
<1> HIDE DEF b
<1>7. CASE firmBlocks' = Append(firmBlocks, b) /\ task' = task /\ enqueued' = enqueued
  <2>1. /\ firmBlocks' \in Seq(Block) /\ Len(firmBlocks') = Len(firmBlocks) + 1
        /\ \A i \in 1..Len(firmBlocks') :
             firmBlocks'[i].height = expected + Len(executing) + i - 1
    BY <1>1, <1>2, <1>6, <1>7, AppendFirm
  <2>2. TypeOK'
    BY <1>1, <1>3, <1>7, <2>1 DEF IInv, TypeOK, AtMostOne
  <2>3. cache'.nextHeight = expected' + Len(executing') + Len(firmBlocks') + Len(enqueued')
    <3>1. Len(enqueued') = 0 /\ Len(executing') = Len(executing) /\ expected' = expected
      BY <1>1, <1>7
    <3>2. cache.nextHeight = expected + Len(executing) + Len(firmBlocks)
      BY <1>2, <1>6
    <3>3. expected \in Nat /\ Len(executing) \in Nat /\ Len(firmBlocks) \in Nat
      BY PipelineTypes
    <3>4. (expected + Len(executing) + Len(firmBlocks)) + 1
            = expected + Len(executing) + (Len(firmBlocks) + 1) + 0
      BY <3>3
    <3> QED BY <1>3, <2>1, <3>1, <3>2, <3>4
  <2>4. FeedInv'
    BY <1>1, <1>7, <2>1, <2>3 DEF IInv, FeedInv
  <2> QED BY <1>4, <1>5, <2>2, <2>4 DEF IInv
<1>8. CASE enqueued' = <<b>> /\ task' = task /\ firmBlocks' = firmBlocks
  <2>1. Len(enqueued') = 1 /\ Head(enqueued') = b
    BY <1>8
  <2>2. TypeOK'
    BY <1>1, <1>2, <1>3, <1>8 DEF IInv, TypeOK, AtMostOne
  <2>3. cache'.nextHeight = expected' + Len(executing') + Len(firmBlocks') + Len(enqueued')
    BY <1>1, <1>2, <1>3, <1>6, <1>8, <2>1, PipelineTypes
  <2>4. FeedInv'
    BY <1>1, <1>2, <1>6, <1>8, <2>1, <2>3 DEF IInv, FeedInv, PastStopHeight
  <2> QED BY <1>4, <1>5, <2>2, <2>4 DEF IInv
<1>9. CASE task' = "err" /\ firmBlocks' = firmBlocks /\ enqueued' = enqueued
  <2>1. TypeOK'
    BY <1>1, <1>3, <1>9 DEF IInv, TypeOK, AtMostOne
  <2>2. FeedInv'
    BY <1>1, <1>9 DEF IInv, FeedInv
  <2> QED BY <1>4, <1>5, <2>1, <2>2 DEF IInv
<1> QED BY <1>7, <1>8, <1>9 DEF ForwardBlockToExecutor, b

(* The executor takes the next block from the channel.                     *)
LEMMA TakeFirmBlockStep == ASSUME IInv, TakeFirmBlock PROVE IInv'
<1>1. /\ executing = << >> /\ firmBlocks # << >>
      /\ executing' = <<Head(firmBlocks)>> /\ firmBlocks' = Tail(firmBlocks)
      /\ UNCHANGED <<task, cache, enqueued, expected, search>>
  BY DEF TakeFirmBlock
<1>2. /\ firmBlocks' \in Seq(Block) /\ Head(firmBlocks) \in Block
      /\ Head(firmBlocks) = firmBlocks[1]
      /\ Len(firmBlocks') = Len(firmBlocks) - 1 /\ Len(firmBlocks) > 0
      /\ \A i \in 1..Len(firmBlocks') : firmBlocks'[i] = firmBlocks[i + 1]
  BY <1>1, PipelineTypes, HeadTailProperties, EmptySeq, ElementOfSeq
<1>3. Len(executing) = 0 /\ Len(executing') = 1 /\ Head(executing') = Head(firmBlocks)
  BY <1>1
<1>4. /\ \A i \in 1..Len(firmBlocks) : firmBlocks[i].height = expected + i - 1
      /\ Head(firmBlocks).height = expected
  BY <1>2, <1>3, PipelineTypes DEF IInv, FeedInv
<1>5. TypeOK'
  BY <1>1, <1>2 DEF IInv, TypeOK, AtMostOne
<1>6. \A i \in 1..Len(firmBlocks') :
        firmBlocks'[i].height = expected' + Len(executing') + i - 1
  BY <1>1, <1>2, <1>3, <1>4, PipelineTypes
<1>7. FeedInv'
  BY <1>1, <1>2, <1>3, <1>4, <1>6, PipelineTypes DEF IInv, FeedInv, PastStopHeight
<1>8. CacheInv' /\ SearchHeightReachesNextBlock'
  BY <1>1 DEF IInv, CacheInv, SearchHeightReachesNextBlock
<1> QED BY <1>5, <1>7, <1>8 DEF IInv

(* The executor commits its block: the next block is within reach of the   *)
(* Celestia height of this one (InclusionAssumption).                      *)
LEMMA CommitFirmBlockStep == ASSUME IInv, CommitFirmBlock PROVE IInv'
<1> DEFINE b == Head(executing)
<1>1. /\ executing # << >> /\ executing' = << >>
      /\ expected' = b.height + 1 /\ search' = b.celestia
      /\ UNCHANGED <<task, cache, enqueued, firmBlocks>>
  BY DEF CommitFirmBlock
<1>2. b \in Block /\ Len(executing) = 1 /\ Len(executing') = 0 /\ b.height = expected
  BY <1>1, AtMostOneProperties DEF IInv, TypeOK, FeedInv
<1>3. /\ b.height \in Nat /\ b.celestia \in Nat
      /\ b.celestia \in 1..Len(Blobs) /\ b.height \in Heights(b.celestia)
  BY <1>2, BlockHeight
<1> HIDE DEF b
<1>4. TypeOK'
  BY <1>1, <1>3 DEF IInv, TypeOK, AtMostOne
<1>5. expected' + Len(executing') = expected + Len(executing)
  BY <1>1, <1>2, PipelineTypes
<1>6. FeedInv'
  BY <1>1, <1>5 DEF IInv, FeedInv, PastStopHeight
<1>7. CacheInv'
  BY <1>1 DEF IInv, CacheInv
<1>8. SearchHeightReachesNextBlock'
  BY <1>1, <1>3, InclusionAssumption DEF SearchHeightReachesNextBlock
<1> QED BY <1>4, <1>6, <1>7, <1>8 DEF IInv

(* Conductor starts again from the commitment state of the rollup.         *)
LEMMA RestartStep == ASSUME IInv, Restart PROVE IInv'
<1>1. /\ task' = "run" /\ cache' = [inner |-> << >>, nextHeight |-> expected]
      /\ enqueued' = << >> /\ firmBlocks' = << >> /\ executing' = << >>
      /\ UNCHANGED <<expected, search>>
  BY DEF Restart, FromParts
<1>2. TypeOK'
  BY <1>1 DEF IInv, TypeOK, AtMostOne
<1>3. CacheInv'
  BY <1>1 DEF CacheInv
<1>4. FeedInv'
  BY <1>1, PipelineTypes DEF FeedInv
<1>5. SearchHeightReachesNextBlock'
  BY <1>1 DEF IInv, SearchHeightReachesNextBlock
<1> QED BY <1>2, <1>3, <1>4, <1>5 DEF IInv

-----------------------------------------------------------------------------
(* The theorems *)

(* IInv holds when Conductor is first started.                             *)
LEMMA InitIInv == Init => IInv
<1> SUFFICES ASSUME Init PROVE IInv
  OBVIOUS
<1>1. TypeOK
  BY InclusionAssumption DEF Init, TypeOK, AtMostOne
<1>2. CacheInv
  BY DEF Init, CacheInv
<1>3. FeedInv
  BY InclusionAssumption DEF Init, FeedInv
<1>4. SearchHeightReachesNextBlock
  BY InclusionAssumption DEF Init, SearchHeightReachesNextBlock
<1> QED BY <1>1, <1>2, <1>3, <1>4 DEF IInv

(* Every step of the reader, of its tasks and of the executor, and every   *)
(* restart, keeps the invariant.                                           *)
LEMMA NextIInv == IInv /\ [Next]_vars => IInv'
<1> SUFFICES ASSUME IInv, [Next]_vars PROVE IInv'
  OBVIOUS
<1>1. CASE \/ ScheduleNewBlobs \/ Return \/ TaskFails \/ ProduceBlock \/ CancelReaders
           \/ \E c \in 1..Len(Blobs) : HandleLatestHeight(c)
  BY <1>1, OuterStep
  DEF ScheduleNewBlobs, Return, TaskFails, ProduceBlock, CancelReaders, HandleLatestHeight,
      executorVars
<1>2. CASE (\E c \in tasks : TaskDone(c)) \/ Drops
  BY <1>2, TaskSteps DEF Drops
<1>3. CASE SendEnqueued \/ ForwardBlockToExecutor
  BY <1>3, SendEnqueuedStep, ForwardBlockStep
<1>4. CASE ExecutorStep
  BY <1>4, TakeFirmBlockStep, CommitFirmBlockStep DEF ExecutorStep
<1>5. CASE Restart
  BY <1>5, RestartStep
<1>6. CASE Finished \/ UNCHANGED vars
  BY <1>6, OuterStep DEF Finished, vars
<1> QED BY <1>1, <1>2, <1>3, <1>4, <1>5, <1>6 DEF Next, ReaderStep

(* IInv is an invariant of the reader.                                     *)
THEOREM Invariance == Spec => []IInv
BY InitIInv, NextIInv, PTL DEF Spec

(* The state of the reader keeps its types: what it sends was posted at    *)
(* the Celestia height it names.                                           *)
THEOREM TypeCorrect == Spec => []TypeOK
<1>1. IInv => TypeOK
  BY DEF IInv
<1> QED BY <1>1, Invariance, PTL

(* Whenever Conductor stops or crashes, and from whichever of its posts a  *)
(* block was read, the search height it would start again from reaches the *)
(* next block.                                                             *)
THEOREM SearchHeightReachesNextBlockHolds == Spec => []SearchHeightReachesNextBlock
<1>1. IInv => SearchHeightReachesNextBlock
  BY DEF IInv
<1> QED BY <1>1, Invariance, PTL

(* A step of the reader or of the executor is a step of the ordered feed   *)
(* or leaves it unchanged.                                                 *)
LEMMA StepSimulation ==
    IInv /\ [Next]_vars => [Feed!Next]_(Feed!vars)
<1> SUFFICES ASSUME IInv, Next PROVE Feed!Next \/ UNCHANGED Feed!vars
  BY DEF vars, Feed!vars
<1> USE DEF executorVars
<1>1. /\ cache.nextHeight \in Nat /\ expected \in Nat /\ firmBlocks \in Seq(Block)
      /\ AtMostOne(enqueued) /\ AtMostOne(executing)
  BY PipelineTypes DEF IInv, TypeOK
<1>2. CASE Return
  BY <1>2 DEF Return, HasReachedStopHeight, PastStopHeight, Feed!Next, Feed!Finish,
              Feed!PastStopHeight
<1>3. CASE TaskFails
  BY <1>3 DEF TaskFails, Select, Feed!Next, Feed!Finish
<1>4. CASE SendEnqueued
  <2> DEFINE b == Head(enqueued)
  <2>1. /\ task = "run" /\ enqueued # << >> /\ ~PastStopHeight(b.height)
        /\ cache.nextHeight = b.height + 1 /\ b \in Block /\ enqueued = <<b>>
        /\ UNCHANGED <<cache, expected, executing, cancelled>>
    <3>1. task = "run" /\ enqueued # << >>
          /\ UNCHANGED <<cache, expected, executing, cancelled>>
      BY <1>4 DEF SendEnqueued, Select
    <3>2. Len(enqueued) = 1 /\ b \in Block /\ enqueued = <<b>>
      BY <1>1, <3>1, AtMostOneProperties
    <3> QED BY <3>1, <3>2, PipelineTypes DEF IInv, FeedInv
  <2>2. CASE cancelled
    BY <1>4, <2>1, <2>2 DEF SendEnqueued, Feed!Next, Feed!Finish
  <2>3. CASE ~cancelled
    <3>1. /\ Len(firmBlocks) < Capacity /\ firmBlocks' = firmBlocks \o <<b>>
          /\ enqueued' = << >> /\ task' = task
      BY <1>4, <2>1, <2>3 DEF SendEnqueued
    <3>2. firmBlocks' = Append(firmBlocks, b)
      BY <1>1, <2>1, <3>1, AppendIsConcat
    <3>3. /\ HeightsOf(firmBlocks') = Append(HeightsOf(firmBlocks), b.height)
          /\ Len(HeightsOf(firmBlocks)) = Len(firmBlocks)
      BY <1>1, <2>1, <3>2, HeightsOfChannel
    <3> QED BY <2>1, <2>3, <3>1, <3>3
            DEF HeightsOf, PastStopHeight, Feed!Next, Feed!Send, Feed!PastStopHeight
  <2> QED BY <2>2, <2>3
<1>5. CASE ForwardBlockToExecutor
  <2> DEFINE b == cache.inner[cache.nextHeight]
  <2>1. /\ task = "run" /\ enqueued = << >> /\ ~PastStopHeight(cache.nextHeight)
        /\ cache'.nextHeight = cache.nextHeight + 1
        /\ b \in Block /\ b.height = cache.nextHeight
        /\ UNCHANGED <<expected, executing, cancelled>>
    BY <1>5 DEF ForwardBlockToExecutor, Select, NextBlockReady, HasReachedStopHeight, Popped,
                IInv, CacheInv
  <2>2. CASE cancelled
    BY <1>5, <2>1, <2>2 DEF ForwardBlockToExecutor, Feed!Next, Feed!Finish
  <2>3. CASE ~cancelled /\ enqueued' = <<b>> /\ task' = task /\ firmBlocks' = firmBlocks
    <3>1. enqueued' # << >> /\ Head(enqueued') = b
      BY <2>3
    <3> QED BY <2>1, <2>3, <3>1 DEF Feed!vars
  <2>4. CASE /\ ~cancelled /\ Len(firmBlocks) < Capacity /\ task' = task
             /\ firmBlocks' = Append(firmBlocks, b) /\ enqueued' = enqueued
    <3>1. /\ HeightsOf(firmBlocks') = Append(HeightsOf(firmBlocks), cache.nextHeight)
          /\ Len(HeightsOf(firmBlocks)) = Len(firmBlocks)
      BY <1>1, <2>1, <2>4, HeightsOfChannel
    <3> QED BY <2>1, <2>4, <3>1
            DEF HeightsOf, PastStopHeight, Feed!Next, Feed!Send, Feed!PastStopHeight
  <2> QED BY <1>5, <2>2, <2>3, <2>4 DEF ForwardBlockToExecutor
<1>6. CASE \/ ScheduleNewBlobs \/ ProduceBlock \/ Finished
           \/ \E c \in 1..Len(Blobs) : HandleLatestHeight(c)
  <2>1. UNCHANGED <<cache, task, enqueued, firmBlocks, expected, executing, cancelled>>
    BY <1>6 DEF ScheduleNewBlobs, ProduceBlock, Finished, HandleLatestHeight, vars
  <2> QED BY <2>1 DEF Feed!vars
<1>7. CASE (\E c \in tasks : TaskDone(c)) \/ Drops
  <2>1. /\ \E c \in tasks, blocks \in SUBSET Block :
             cache' \in CacheReconstructedBlocks(blocks)
        /\ UNCHANGED <<task, enqueued, firmBlocks, expected, executing, cancelled>>
    BY <1>7, ReconstructedBlocks DEF Drops, TaskDone, TaskDropsBlob
  <2>2. cache'.nextHeight = cache.nextHeight
    BY <2>1, CacheReconstructed DEF IInv
  <2> QED BY <2>1, <2>2 DEF Feed!vars
<1>8. CASE TakeFirmBlock
  <2> DEFINE b == Head(firmBlocks)
  <2>1. /\ executing = << >> /\ firmBlocks # << >>
        /\ executing' = <<b>> /\ firmBlocks' = Tail(firmBlocks)
        /\ UNCHANGED <<cache, task, enqueued, expected, cancelled>>
    BY <1>8 DEF TakeFirmBlock
  <2>2. executing' # << >> /\ Head(executing') = b
    BY <2>1
  <2>3. b = firmBlocks[1] /\ Len(firmBlocks) > 0 /\ Len(executing) = 0 /\ b \in Block
    BY <1>1, <2>1, HeadTailProperties, EmptySeq, ElementOfSeq, PipelineTypes
  <2>4. b.height = expected
    BY <2>3, PipelineTypes DEF IInv, FeedInv
  <2>5. /\ HeightsOf(firmBlocks') = Tail(HeightsOf(firmBlocks))
        /\ Head(HeightsOf(firmBlocks)) = b.height
        /\ HeightsOf(firmBlocks) # << >>
    BY <1>1, <2>1, HeightsOfChannel
  <2> HIDE DEF b
  <2> QED BY <1>1, <2>1, <2>2, <2>4, <2>5 DEF HeightsOf, Feed!Next, Feed!Take
<1>9. CASE CommitFirmBlock
  <2>1. Head(executing) \in Block /\ executing # << >>
    BY <1>1, <1>9, AtMostOneProperties DEF CommitFirmBlock
  <2>2. Head(executing).height # 0
    BY <2>1, BlockHeight
  <2> QED BY <1>9, <2>1, <2>2 DEF CommitFirmBlock, Feed!Next, Feed!Commit
<1>10. CASE CancelReaders
  BY <1>10 DEF CancelReaders, Feed!Next, Feed!Cancel
<1>11. CASE Restart
  <2>1. HeightsOf(firmBlocks') = << >>
    BY <1>11 DEF Restart, FromParts, HeightsOf
  <2> QED BY <1>11, <2>1 DEF HeightsOf, Restart, FromParts, Feed!Next, Feed!Restart
<1> QED
  BY <1>2, <1>3, <1>4, <1>5, <1>6, <1>7, <1>8, <1>9, <1>10, <1>11
  DEF Next, ReaderStep, ExecutorStep

(* The reader implements OrderedFeed across restarts: blocks found in any  *)
(* order, at several Celestia heights and more than once, are sent in      *)
(* order, each once, from the height the executor expects.                 *)
THEOREM ImplementsOrderedFeed == Spec => RefinesOrderedFeed
<1>1. Init => Feed!Init
  BY DEF Init, Feed!Init
<1> QED BY <1>1, StepSimulation, Invariance, PTL DEF Spec, RefinesOrderedFeed, Feed!Spec

=============================================================================
