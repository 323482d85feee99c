--------------------------- MODULE RelayerProofs ----------------------------
(***************************************************************************)
(* Proofs about Relayer for any number and size of blocks, batch size,     *)
(* channel capacity, fees and faults: the inductive invariant IInv, that   *)
(* Celestia gets the blocks in order, and that the submission-state file   *)
(* is true and never goes back.                                            *)
(***************************************************************************)
EXTENDS Relayer, SequenceTheorems, FiniteSetTheorems, TLAPS

-----------------------------------------------------------------------------
(* The inductive invariant *)

Submissions == [celestia : Nat, sequencer : 0..LastHeight]

TypeOK ==
    /\ disk \in [state : {"fresh", "started", "prepared"}, last : Submissions, tx : Txs]
    /\ phase \in {"down", "init", "run", "closing"}
    /\ nextFetch \in 1..LastHeight + 1 /\ forward \in 0..LastHeight
    /\ blocks \in Seq(Heights)
    /\ nextBatch \in SUBSET Heights /\ pending \in 0..LastHeight
    /\ started \in Submissions
    /\ ongoing \in [stage : {"none", "prepare", "broadcast", "confirm", "timedout", "done"},
                    heights : SUBSET Heights, tx : Txs]
    /\ mempool \in SUBSET Txs
    /\ celestia \in Seq(Txs) /\ failed \in Nat
    /\ faults \in 0..MaxFaults

(* the greatest height of the newest transaction on Celestia *)
LastPosted == IF Len(celestia) = 0 THEN 0 ELSE Max(celestia[Len(celestia)].heights)

(* a batch is an interval of heights *)
IsBatch(S) == /\ Min(S) \in Heights /\ Max(S) \in Heights
              /\ Min(S) <= Max(S) /\ S = Min(S)..Max(S)

(* a batch that begins right behind a recorded submission *)
Follows(S, last) == IsBatch(S) /\ Min(S) = last.sequencer + 1

CelestiaInv ==
    \A n \in 1..Len(celestia) :
      /\ celestia[n].nonce < AccountNonce
      /\ \A m \in 1..(n - 1) : celestia[m].nonce < celestia[n].nonce
      /\ IsBatch(celestia[n].heights)
      /\ Min(celestia[n].heights) <= 1 + (IF n = 1 THEN 0 ELSE Max(celestia[n - 1].heights))
      /\ 1..Max(celestia[n].heights) \subseteq Posted

(* a record of the newest submission that is confirmed *)
Recorded(last) ==
    /\ last.celestia <= Len(celestia)
    /\ last.sequencer <= LastPosted
    /\ last.sequencer > 0 => /\ last.celestia > 0
                             /\ Max(celestia[last.celestia].heights) = last.sequencer

(* At most one transaction waits in Celestia's mempool, one that Celestia  *)
(* can include next.                                                       *)
MempoolInv ==
    /\ \A t, u \in mempool : t = u
    /\ \A t \in mempool :
         /\ t.nonce = AccountNonce
         /\ IsBatch(t.heights)
         /\ Min(t.heights) <= LastPosted + 1
         /\ Max(t.heights) >= disk.last.sequencer

(* While the file is "prepared", at most one transaction is included: the  *)
(* prepared one, or one that waited when it was prepared.                  *)
DiskInv ==
    /\ Recorded(disk.last)
    /\ disk.state = "prepared" =>
         /\ Follows(disk.tx.heights, disk.last)
         /\ disk.tx.nonce \in {AccountNonce, AccountNonce - 1}
         /\ disk.tx.nonce # AccountNonce => mempool = {}

OngoingInv ==
    /\ ongoing.stage # "none" =>
         phase \in {"run", "closing"} /\ Follows(ongoing.heights, started)
    /\ ongoing.stage \notin {"none", "prepare"} => ongoing.tx.heights = ongoing.heights
    /\ ongoing.stage \in {"broadcast", "confirm", "timedout"} =>
         disk.state = "prepared" /\ disk.tx = ongoing.tx
    /\ (phase = "run" \/ ongoing.stage # "none") /\ ongoing.stage # "done" =>
         started = disk.last
    /\ ongoing.stage = "done" =>
         /\ disk.last.celestia \in 1..Len(celestia)
         /\ celestia[disk.last.celestia] = ongoing.tx
         /\ disk.last.sequencer = Max(ongoing.heights)

(* The heights from the confirmed ones to the next one to fetch: the batch *)
(* in flight, the next batch, the pending block, the channel and the block *)
(* that waits for room                                                     *)
Taken == IF ongoing.stage = "none" THEN started.sequencer ELSE Max(ongoing.heights)
Batched == IF nextBatch = {} THEN Taken ELSE Max(nextBatch)
Received == IF pending = 0 THEN Batched ELSE pending
Sent == IF forward = 0 THEN nextFetch - 1 ELSE forward - 1

ReaderInv ==
    /\ forward # 0 => nextFetch = forward + 1
    /\ Len(blocks) <= Sent
    /\ \A i \in 1..Len(blocks) : blocks[i] = Sent - Len(blocks) + i

PipelineInv ==
    /\ nextBatch # {} => IsBatch(nextBatch) /\ Min(nextBatch) = Taken + 1
    /\ pending # 0 => nextBatch # {} /\ pending = Batched + 1
    /\ Sent - Len(blocks) <= Received
    /\ Sent - Len(blocks) < Received =>
         ongoing.stage = "none" /\ nextBatch = {} /\ pending = 0

MemoryInv ==
    /\ phase \in {"down", "init"} =>
         started = Nothing /\ nextBatch = {} /\ pending = 0 /\ ongoing = Idle
    /\ phase = "down" => nextFetch = 1 /\ forward = 0 /\ blocks = << >>
    /\ phase = "init" => Sent - Len(blocks) <= disk.last.sequencer
    /\ phase = "run" => PipelineInv

IInv ==
    /\ TypeOK /\ CelestiaInv /\ MempoolInv /\ DiskInv
    /\ OngoingInv /\ ReaderInv /\ MemoryInv
-----------------------------------------------------------------------------
(* Lemmas about batches *)

(* An interval of heights is a batch, with the bounds one expects.         *)
LEMMA IntervalBatch ==
    ASSUME NEW a \in Heights, NEW b \in Heights, a <= b
    PROVE  IsBatch(a..b) /\ Min(a..b) = a /\ Max(a..b) = b
<1>1. a \in Nat /\ b \in Nat /\ a \in a..b /\ b \in a..b
  BY RelayerAssumption DEF Heights
<1>2. Min(a..b) = a
  BY <1>1 DEF Min
<1>3. Max(a..b) = b
  BY <1>1 DEF Max
<1> QED BY <1>2, <1>3 DEF IsBatch

(* A single height is a batch.                                             *)
LEMMA SingletonBatch ==
    ASSUME NEW h \in Heights
    PROVE  IsBatch({h}) /\ Min({h}) = h /\ Max({h}) = h
<1>1. h..h = {h} /\ h <= h
  BY RelayerAssumption DEF Heights
<1> QED BY <1>1, IntervalBatch

(* NextSubmission::try_add appends the height behind the batch.            *)
LEMMA GrowBatch ==
    ASSUME NEW S, IsBatch(S), NEW h \in Heights, h = Max(S) + 1
    PROVE  IsBatch(S \cup {h}) /\ Min(S \cup {h}) = Min(S) /\ Max(S \cup {h}) = h
<1> DEFINE a == Min(S)
           b == Max(S)
<1>1. a \in Heights /\ b \in Heights /\ a <= b /\ S = a..b /\ h = b + 1
  BY DEF IsBatch
<1> HIDE DEF a, b
<1>2. a \in Nat /\ b \in Nat /\ h \in Nat /\ a <= h
  BY <1>1, RelayerAssumption DEF Heights
<1>3. (a..b) \cup {h} = a..h
  BY <1>1, <1>2
<1>4. IsBatch(a..h) /\ Min(a..h) = a /\ Max(a..h) = h
  BY <1>1, <1>2, IntervalBatch
<1>5. S \cup {h} = a..h
  BY <1>1, <1>3
<1> QED BY <1>4, <1>5 DEF a

(* A batch is a set of heights that holds its bounds.                      *)
LEMMA BatchHeights ==
    ASSUME NEW S, IsBatch(S)
    PROVE  /\ S \subseteq Heights /\ S # {}
           /\ Min(S) \in Nat /\ Max(S) \in Nat /\ Min(S) > 0
           /\ Max(S) <= LastHeight /\ Min(S) <= Max(S)
<1> DEFINE a == Min(S)
           b == Max(S)
<1>1. a \in Heights /\ b \in Heights /\ a <= b /\ S = a..b
  BY DEF IsBatch
<1> HIDE DEF a, b
<1>2. LastHeight \in Nat
  BY RelayerAssumption
<1>3. /\ S \subseteq Heights /\ S # {}
      /\ a \in Nat /\ b \in Nat /\ a > 0 /\ b <= LastHeight /\ a <= b
  BY <1>1, <1>2 DEF Heights
<1> QED BY <1>3 DEF a, b

-----------------------------------------------------------------------------
(* Lemmas about Celestia *)

(* What Celestia holds are transactions of the relayer.                    *)
LEMMA NonceType ==
    ASSUME TypeOK, NEW n \in 1..Len(celestia)
    PROVE  celestia[n].nonce \in Nat
<1>1. celestia[n] \in Txs
  BY ElementOfSeq DEF TypeOK
<1> QED BY <1>1 DEF Txs

(* A nonce is used once, so the height of a transaction is determined.     *)
LEMMA HeightOfIncluded ==
    ASSUME TypeOK, CelestiaInv, NEW n \in 1..Len(celestia)
    PROVE  HeightOf(celestia[n]) = n
<1>1. n \in Nat /\ Len(celestia) \in Nat
  BY LenProperties DEF TypeOK
<1>2. ASSUME NEW m \in 1..Len(celestia), celestia[m] = celestia[n] PROVE m = n
  <2>1. celestia[m].nonce \in Nat /\ celestia[n].nonce \in Nat
    BY NonceType
  <2>2. CASE m < n
    BY <1>1, <1>2, <2>1, <2>2 DEF CelestiaInv
  <2>3. CASE n < m
    BY <1>1, <1>2, <2>1, <2>3 DEF CelestiaInv
  <2> QED BY <1>1, <2>2, <2>3
<1> QED BY <1>2 DEF HeightOf

(* A submission whose nonce is not older than the newest transaction is    *)
(* confirmed as that newest transaction, and its record is true.           *)
LEMMA CompletedIsNewest ==
    ASSUME TypeOK, CelestiaInv, NEW tx \in Txs, Included(tx),
           tx.nonce \in {AccountNonce, AccountNonce - 1}
    PROVE  /\ Len(celestia) > 0 /\ celestia[Len(celestia)] = tx
           /\ tx.nonce # AccountNonce
           /\ IsBatch(tx.heights)
           /\ Completed(tx) = [celestia |-> Len(celestia), sequencer |-> Max(tx.heights)]
           /\ Completed(tx) \in Submissions
           /\ Recorded(Completed(tx))
           /\ Completed(tx).sequencer = LastPosted
<1>1. Len(celestia) \in Nat /\ AccountNonce \in Nat
  BY LenProperties DEF TypeOK, AccountNonce
<1>2. PICK n \in 1..Len(celestia) : celestia[n] = tx
  BY DEF Included
<1>3. tx.nonce \in Nat /\ tx.nonce < AccountNonce /\ IsBatch(tx.heights)
  BY <1>2 DEF CelestiaInv, Txs
<1>4. n = Len(celestia) /\ n > 0 /\ tx.nonce # AccountNonce
  <2>1. CASE n < Len(celestia)
    <3>1. /\ celestia[Len(celestia)].nonce \in Nat
          /\ celestia[Len(celestia)].nonce < AccountNonce
          /\ celestia[n].nonce < celestia[Len(celestia)].nonce
      BY <1>1, <2>1, NonceType DEF CelestiaInv
    <3> QED BY <1>1, <1>2, <1>3, <3>1
  <2> QED BY <1>1, <1>3, <2>1
<1>5. HeightOf(tx) = Len(celestia)
  BY <1>2, <1>4, HeightOfIncluded
<1>6. Completed(tx) = [celestia |-> Len(celestia), sequencer |-> Max(tx.heights)]
  BY <1>5 DEF Completed
<1>7. Max(tx.heights) \in 0..LastHeight
  BY <1>3, BatchHeights, RelayerAssumption
<1>8. Completed(tx) \in Submissions
  BY <1>1, <1>6, <1>7 DEF Submissions
<1>9. LastPosted = Max(tx.heights)
  BY <1>2, <1>4 DEF LastPosted
<1>10. Recorded(Completed(tx))
  BY <1>1, <1>2, <1>4, <1>6, <1>7, <1>9, RelayerAssumption DEF Recorded
<1> QED BY <1>1, <1>2, <1>3, <1>4, <1>6, <1>8, <1>9, <1>10

(* LastPosted is a height or 0.                                            *)
LEMMA LastPostedType ==
    ASSUME TypeOK, CelestiaInv
    PROVE  LastPosted \in 0..LastHeight /\ Len(celestia) \in Nat
<1>1. Len(celestia) \in Nat
  BY LenProperties DEF TypeOK
<1>2. CASE Len(celestia) = 0
  BY <1>1, <1>2, RelayerAssumption DEF LastPosted
<1>3. CASE Len(celestia) # 0
  <2>1. IsBatch(celestia[Len(celestia)].heights)
    BY <1>1, <1>3 DEF CelestiaInv
  <2> QED BY <1>1, <1>3, <2>1, BatchHeights, RelayerAssumption DEF LastPosted
<1> QED BY <1>2, <1>3

-----------------------------------------------------------------------------
(* Every action preserves the invariant *)

(* Steps that leave Celestia and the file alone.                           *)
LEMMA ExternalFrame ==
    ASSUME CelestiaInv, MempoolInv, DiskInv, UNCHANGED <<celestia, failed, mempool, disk>>
    PROVE  CelestiaInv' /\ MempoolInv' /\ DiskInv'
<1>1. CelestiaInv'
  BY DEF CelestiaInv, Posted, AccountNonce
<1>2. MempoolInv'
  BY DEF MempoolInv, LastPosted, AccountNonce
<1>3. DiskInv'
  BY DEF DiskInv, Recorded, LastPosted, AccountNonce
<1> QED BY <1>1, <1>2, <1>3

(* The submission in flight depends on the file, on Celestia and on        *)
(* started only.                                                           *)
LEMMA OngoingFrame ==
    ASSUME OngoingInv, UNCHANGED <<celestia, disk, phase, started, ongoing>>
    PROVE  OngoingInv'
BY DEF OngoingInv

(* Relayer::run: the reader starts behind the height of the file.          *)
LEMMA StartStep == ASSUME IInv, Start PROVE IInv'
<1>1. TypeOK'
  BY RelayerAssumption DEF IInv, TypeOK, Start, external, Submissions
<1>2. CelestiaInv' /\ MempoolInv' /\ DiskInv' /\ OngoingInv'
  <2>1. CelestiaInv' /\ MempoolInv' /\ DiskInv'
    BY ExternalFrame DEF IInv, Start, external
  <2>2. OngoingInv'
    BY DEF IInv, OngoingInv, MemoryInv, Idle, Start, external
  <2> QED BY <2>1, <2>2
<1>3. blocks' = << >> /\ forward' = 0 /\ nextFetch' = disk.last.sequencer + 1
      /\ phase' = "init" /\ disk' = disk
  BY DEF IInv, MemoryInv, Start
<1>4. disk.last.sequencer \in Nat
  BY RelayerAssumption DEF IInv, TypeOK, Submissions
<1>5. Sent' = disk.last.sequencer /\ Len(blocks') = 0
  BY <1>3, <1>4 DEF Sent
<1>6. ReaderInv'
  BY <1>3, <1>4, <1>5 DEF ReaderInv
<1>7. MemoryInv'
  BY <1>3, <1>4, <1>5 DEF IInv, MemoryInv, Start, external
<1> QED BY <1>1, <1>2, <1>6, <1>7 DEF IInv

(* The reader's own step: the height behind the channel goes into it, or   *)
(* waits.                                                                  *)
LEMMA ReaderStep ==
    ASSUME IInv, Reading, forward # 0 \/ nextFetch <= LastHeight,
           UNCHANGED <<disk, phase, nextBatch, pending, started, ongoing, external, faults>>,
           TypeOK', ReaderInv',
           Sent' - Len(blocks') = Sent - Len(blocks)
    PROVE  IInv'
<1>1. CelestiaInv' /\ MempoolInv' /\ DiskInv'
  BY ExternalFrame DEF IInv, external
<1>2. OngoingInv'
  BY OngoingFrame DEF IInv, external
<1>3. phase \in {"init", "run"} /\ phase' = phase
  BY DEF Reading
<1>4. Received' = Received /\ Batched' = Batched /\ Taken' = Taken
  BY DEF Received, Batched, Taken
<1>5. PipelineInv => PipelineInv'
  BY <1>4 DEF PipelineInv
<1>6. MemoryInv'
  BY <1>3, <1>5 DEF IInv, MemoryInv
<1> QED BY <1>1, <1>2, <1>6 DEF IInv

(* block_stream yields a block.                                            *)
LEMMA BlockFetchedStep == ASSUME IInv, BlockFetched PROVE IInv'
<1>1. /\ nextFetch \in 1..LastHeight /\ forward = 0 /\ nextFetch' = nextFetch + 1
      /\ blocks \in Seq(Heights) /\ nextFetch \in Heights /\ LastHeight \in Nat
      /\ Len(blocks) \in Nat
  BY RelayerAssumption, LenProperties DEF IInv, TypeOK, BlockFetched, Heights
<1>2. /\ Len(blocks) <= Sent /\ Sent = nextFetch - 1
      /\ \A i \in 1..Len(blocks) : blocks[i] = Sent - Len(blocks) + i
  BY <1>1 DEF IInv, ReaderInv, Sent
<1>3. CASE Len(blocks) < Capacity
  <2>1. blocks' = Append(blocks, nextFetch) /\ forward' = 0
    BY <1>1, <1>3 DEF BlockFetched, ForwardBlockForSubmission
  <2>2. /\ blocks' \in Seq(Heights) /\ Len(blocks') = Len(blocks) + 1
        /\ \A i \in 1..Len(blocks) : blocks'[i] = blocks[i]
        /\ blocks'[Len(blocks) + 1] = nextFetch
    BY <1>1, <2>1, AppendProperties
  <2>3. Sent' = Sent + 1
    BY <1>1, <1>2, <2>1 DEF Sent
  <2>4. ReaderInv'
    BY <1>1, <1>2, <2>1, <2>2, <2>3 DEF ReaderInv
  <2>5. TypeOK'
    BY <1>1, <2>1, <2>2 DEF IInv, TypeOK, BlockFetched, external
  <2> QED BY <1>1, <1>2, <2>2, <2>3, <2>4, <2>5, ReaderStep DEF BlockFetched
<1>4. CASE ~(Len(blocks) < Capacity)
  <2>1. blocks' = blocks /\ forward' = nextFetch
    BY <1>1, <1>4 DEF BlockFetched, ForwardBlockForSubmission
  <2>2. Sent' = Sent
    BY <1>1, <1>2, <2>1 DEF Sent
  <2>3. ReaderInv'
    BY <1>1, <1>2, <2>1, <2>2 DEF ReaderInv
  <2>4. TypeOK'
    BY <1>1, <2>1 DEF IInv, TypeOK, BlockFetched, external
  <2> QED BY <1>1, <1>2, <2>1, <2>2, <2>3, <2>4, ReaderStep DEF BlockFetched
<1> QED BY <1>3, <1>4

(* forward_once_free: the block that waited goes into the channel.         *)
LEMMA ForwardOnceFreeStep == ASSUME IInv, ForwardOnceFree PROVE IInv'
<1>1. /\ forward \in Heights /\ forward # 0 /\ forward \in Nat /\ nextFetch \in Nat
      /\ blocks \in Seq(Heights) /\ Len(blocks) \in Nat
      /\ blocks' = Append(blocks, forward) /\ forward' = 0 /\ nextFetch' = nextFetch
  BY RelayerAssumption, LenProperties DEF IInv, TypeOK, ForwardOnceFree, Heights
<1>2. /\ Len(blocks) <= Sent /\ Sent = forward - 1 /\ nextFetch = forward + 1
      /\ \A i \in 1..Len(blocks) : blocks[i] = Sent - Len(blocks) + i
  BY <1>1 DEF IInv, ReaderInv, Sent
<1>3. /\ blocks' \in Seq(Heights) /\ Len(blocks') = Len(blocks) + 1
      /\ \A i \in 1..Len(blocks) : blocks'[i] = blocks[i]
      /\ blocks'[Len(blocks) + 1] = forward
  BY <1>1, AppendProperties
<1>4. Sent' = Sent + 1
  BY <1>1, <1>2 DEF Sent
<1>5. ReaderInv'
  BY <1>1, <1>2, <1>3, <1>4 DEF ReaderInv
<1>6. TypeOK'
  BY <1>1, <1>3, RelayerAssumption DEF IInv, TypeOK, ForwardOnceFree, external
<1> QED BY <1>1, <1>2, <1>3, <1>4, <1>5, <1>6, ReaderStep DEF ForwardOnceFree

(* A fault is counted within its bound.                                    *)
LEMMA FaultsBounded ==
    ASSUME TypeOK
    PROVE  /\ Fault => faults' \in 0..MaxFaults
           /\ \A tx : TimesOut(tx) => faults' \in 0..MaxFaults
BY RelayerAssumption DEF TypeOK, Fault, TimesOut

(* BlobSubmitter::run enters its loop with what the file records.          *)
LEMMA EnterLoopStep ==
    ASSUME IInv, NEW last \in Submissions, EnterLoop(last),
           disk' = StartedState(last) \/ (disk' = disk /\ last = disk.last),
           last.sequencer >= disk.last.sequencer,
           faults' \in 0..MaxFaults, MempoolInv', DiskInv'
    PROVE  IInv'
<1> USE DEF EnterLoop, readerVars, external
<1>1. NoTx \in Txs
  BY RelayerAssumption DEF NoTx, Txs
<1>2. /\ started' = last /\ nextBatch' = {} /\ pending' = 0 /\ ongoing' = Idle
      /\ phase = "init" /\ phase' = "run" /\ disk'.last = last
      /\ blocks' = blocks /\ forward' = forward /\ nextFetch' = nextFetch
      /\ celestia' = celestia /\ mempool' = mempool
  BY DEF IInv, MemoryInv, StartedState
<1>3. TypeOK'
  BY <1>1, <1>2 DEF IInv, TypeOK, StartedState
<1>4. CelestiaInv'
  BY <1>2 DEF IInv, CelestiaInv, Posted, AccountNonce
<1>5. OngoingInv'
  BY <1>2 DEF OngoingInv, Idle
<1>6. Sent' = Sent /\ ReaderInv'
  BY <1>2 DEF IInv, ReaderInv, Sent
<1>7. /\ Sent \in Int /\ Len(blocks) \in Nat /\ last.sequencer \in Nat
      /\ disk.last.sequencer \in Nat
  BY LenProperties, RelayerAssumption DEF IInv, TypeOK, Submissions, Sent
<1>8. Received' = last.sequencer
  BY <1>2 DEF Received, Batched, Taken, Idle
<1>9. Sent - Len(blocks) <= last.sequencer
  BY <1>2, <1>7 DEF IInv, MemoryInv
<1>10. PipelineInv'
  BY <1>2, <1>6, <1>7, <1>8, <1>9 DEF PipelineInv, Idle
<1>11. MemoryInv'
  BY <1>2, <1>10 DEF MemoryInv
<1> QED BY <1>3, <1>4, <1>5, <1>6, <1>11 DEF IInv

(* fresh.into_started, or a file that is "started".                        *)
LEMMA StartFromFileStep == ASSUME IInv, StartFromFile PROVE IInv'
<1>1. disk.last \in Submissions /\ disk.last.sequencer >= disk.last.sequencer
      /\ faults' \in 0..MaxFaults
  BY RelayerAssumption DEF IInv, TypeOK, Submissions, StartFromFile
<1>2. MempoolInv' /\ DiskInv'
  BY ExternalFrame DEF IInv, StartFromFile, EnterLoop, external
<1> QED BY <1>1, <1>2, EnterLoopStep DEF StartFromFile

(* try_confirm_submission_from_last_session confirms.                      *)
LEMMA ConfirmLastSessionStep == ASSUME IInv, ConfirmLastSession PROVE IInv'
<1> DEFINE last == Completed(disk.tx)
<1> USE DEF ConfirmLastSession, EnterLoop, external
<1>1. /\ TypeOK /\ CelestiaInv /\ disk.tx \in Txs /\ Included(disk.tx)
      /\ disk.tx.nonce \in {AccountNonce, AccountNonce - 1}
      /\ Follows(disk.tx.heights, disk.last)
      /\ disk.tx.nonce # AccountNonce => mempool = {}
      /\ disk' = StartedState(last) /\ mempool' = mempool /\ celestia' = celestia
      /\ failed' = failed
  BY DEF IInv, DiskInv, TypeOK
<1>2. /\ last = [celestia |-> Len(celestia), sequencer |-> Max(disk.tx.heights)]
      /\ last \in Submissions /\ Recorded(last) /\ disk.tx.nonce # AccountNonce
  BY <1>1, CompletedIsNewest
<1> HIDE DEF last
<1>3. mempool' = {} /\ disk'.last = last /\ disk'.state = "started"
  BY <1>1, <1>2 DEF StartedState
<1>4. MempoolInv'
  BY <1>3 DEF MempoolInv
<1>5. DiskInv'
  BY <1>1, <1>2, <1>3 DEF DiskInv, Recorded, LastPosted
<1>6. last.sequencer >= disk.last.sequencer
  BY <1>1, <1>2, BatchHeights DEF Follows, TypeOK, Submissions
<1>7. faults' \in 0..MaxFaults
  BY <1>1 DEF TypeOK
<1> QED BY <1>1, <1>2, <1>4, <1>5, <1>6, <1>7, EnterLoopStep DEF last

(* A submission that is not confirmed in time is reverted.                 *)
LEMMA RevertLastSessionStep == ASSUME IInv, RevertLastSession PROVE IInv'
<1> USE DEF RevertLastSession, EnterLoop, external
<1>1. /\ disk.last \in Submissions /\ disk.last.sequencer >= disk.last.sequencer
      /\ disk' = StartedState(disk.last)
      /\ disk'.last = disk.last /\ disk'.state = "started"
      /\ mempool' = mempool /\ celestia' = celestia /\ failed' = failed
  BY RelayerAssumption DEF IInv, TypeOK, Submissions, StartedState
<1>2. MempoolInv'
  BY <1>1 DEF IInv, MempoolInv, LastPosted, AccountNonce
<1>3. DiskInv'
  BY <1>1 DEF IInv, DiskInv, Recorded, LastPosted, AccountNonce
<1>4. faults' \in 0..MaxFaults
  BY FaultsBounded DEF IInv
<1> QED BY <1>1, <1>2, <1>3, <1>4, EnterLoopStep

(* The result of a submission: started becomes what the file records.      *)
LEMMA SubmissionResultStep == ASSUME IInv, SubmissionResult PROVE IInv'
<1> USE DEF SubmissionResult, external, readerVars
<1>1. /\ TypeOK /\ CelestiaInv /\ phase = "run" /\ ongoing.stage = "done"
      /\ disk.last.celestia \in 1..Len(celestia)
      /\ celestia[disk.last.celestia] = ongoing.tx
      /\ disk.last.sequencer = Max(ongoing.heights)
      /\ ongoing.tx.heights = ongoing.heights
      /\ disk.last \in Submissions
  BY DEF IInv, OngoingInv, TypeOK
<1>2. HeightOf(ongoing.tx) = disk.last.celestia
  BY <1>1, HeightOfIncluded
<1>3. started' = disk.last
  BY <1>1, <1>2 DEF Completed, Submissions
<1>4. CelestiaInv' /\ MempoolInv' /\ DiskInv'
  BY ExternalFrame DEF IInv
<1>5. TypeOK'
  BY <1>1, <1>3, RelayerAssumption DEF TypeOK, Idle, NoTx, Txs
<1>6. OngoingInv'
  BY <1>1, <1>3 DEF OngoingInv, Idle
<1>7. ReaderInv' /\ Sent' = Sent
  BY DEF IInv, ReaderInv, Sent
<1>8. Taken' = Taken /\ Batched' = Batched /\ Received' = Received
  BY <1>1, <1>3 DEF Taken, Batched, Received, Idle
<1>9. PipelineInv'
  BY <1>1, <1>7, <1>8 DEF IInv, MemoryInv, PipelineInv
<1>10. MemoryInv'
  BY <1>1, <1>9 DEF MemoryInv
<1> QED BY <1>4, <1>5, <1>6, <1>7, <1>10 DEF IInv

(* next_submission.take(): the next batch is the one in flight, and the    *)
(* pending block opens a new one or ends the submitter.                    *)
LEMMA TakeSubmissionStep == ASSUME IInv, TakeSubmission PROVE IInv'
<1> USE DEF TakeSubmission, BatchReady, external, readerVars
<1>1. /\ TypeOK /\ phase = "run" /\ ongoing.stage = "none" /\ nextBatch # {}
      /\ started = disk.last /\ PipelineInv
      /\ IsBatch(nextBatch) /\ Min(nextBatch) = started.sequencer + 1
      /\ ongoing'.stage = "prepare" /\ ongoing'.heights = nextBatch
      /\ phase' \in {"run", "closing"} /\ pending' = 0
      /\ UNCHANGED <<started, disk, celestia, failed, mempool>>
  BY DEF IInv, MemoryInv, PipelineInv, OngoingInv, Taken
<1>2. CelestiaInv' /\ MempoolInv' /\ DiskInv'
  BY ExternalFrame DEF IInv
<1>3. pending # 0 => pending \in Heights /\ pending = Max(nextBatch) + 1
  BY SMTT(30), <1>1, RelayerAssumption DEF TypeOK, PipelineInv, Batched, Heights
<1>4. nextBatch' \in SUBSET Heights
  BY <1>3 DEF Heights
<1>5. TypeOK'
  BY <1>1, <1>4, RelayerAssumption DEF TypeOK, NoTx, Txs
<1>6. OngoingInv'
  BY <1>1 DEF OngoingInv, Follows
<1>7. ReaderInv' /\ Sent' = Sent /\ blocks' = blocks
  BY DEF IInv, ReaderInv, Sent
<1>8. Taken' = Max(nextBatch)
  BY <1>1 DEF Taken
<1>9. ASSUME phase' = "run"
      PROVE  /\ nextBatch' # {} => IsBatch(nextBatch') /\ Min(nextBatch') = Taken' + 1
             /\ Received' = Received
  <2>1. CASE pending = 0
    <3>1. nextBatch' = {}
      BY <2>1
    <3> QED BY <1>1, <1>8, <2>1, <3>1 DEF Received, Batched
  <2>2. CASE pending # 0
    <3>1. nextBatch' = {pending} /\ pending' = 0
      BY <1>9, <2>2
    <3>2. IsBatch(nextBatch') /\ Min(nextBatch') = pending /\ Max(nextBatch') = pending
      BY <1>3, <2>2, <3>1, SingletonBatch
    <3>3. nextBatch' # {}
      BY <3>1
    <3> QED BY <1>3, <1>8, <2>2, <3>1, <3>2, <3>3 DEF Received, Batched
  <2> QED BY <2>1, <2>2
<1>10. phase' = "run" => PipelineInv'
  BY <1>1, <1>7, <1>9 DEF PipelineInv
<1>11. MemoryInv'
  BY <1>1, <1>10 DEF MemoryInv
<1> QED BY <1>2, <1>5, <1>6, <1>7, <1>11 DEF IInv

(* blocks.recv(): a block that is on Celestia is dropped, any other one    *)
(* extends the next batch or becomes the pending block.                    *)
LEMMA ReceiveBlockStep == ASSUME IInv, ReceiveBlock PROVE IInv'
<1> DEFINE h == Head(blocks)
<1>1. /\ TypeOK /\ phase = "run" /\ pending = 0 /\ PipelineInv
      /\ blocks \in Seq(Heights) /\ blocks # << >> /\ blocks' = Tail(blocks)
      /\ UNCHANGED <<disk, phase, nextFetch, forward, started, ongoing, mempool, celestia,
                     failed, faults>>
  BY DEF IInv, MemoryInv, TypeOK, ReceiveBlock, external, readerVars
<1>2. CelestiaInv' /\ MempoolInv' /\ DiskInv'
  BY <1>1, ExternalFrame DEF IInv
<1>3. OngoingInv'
  BY <1>1, OngoingFrame DEF IInv
<1>4. Sent' = Sent /\ Sent \in Int /\ Taken' = Taken
  BY <1>1, RelayerAssumption DEF TypeOK, Sent, Taken
<1>5. /\ Len(blocks) \in Nat /\ Len(blocks) > 0 /\ h = blocks[1] /\ h \in Heights
      /\ blocks' \in Seq(Heights) /\ Len(blocks') = Len(blocks) - 1
      /\ \A i \in 1..Len(blocks') : blocks'[i] = blocks[i + 1]
  BY <1>1, HeadTailProperties, LenProperties, ElementOfSeq
<1>6. h = Sent - Len(blocks) + 1 /\ h = Sent - Len(blocks')
  BY <1>4, <1>5 DEF IInv, ReaderInv
<1>7. ReaderInv'
  BY <1>1, <1>4, <1>5 DEF IInv, ReaderInv
<1>8. /\ h \in Nat /\ h > 0 /\ h <= LastHeight
      /\ started.sequencer \in Nat /\ Taken \in Nat /\ started.sequencer <= Taken
  <2>1. h \in Nat /\ h > 0 /\ h <= LastHeight /\ started.sequencer \in Nat
    BY <1>1, <1>5, RelayerAssumption DEF TypeOK, Submissions, Heights
  <2>2. ongoing.stage # "none" => Follows(ongoing.heights, started)
    BY DEF IInv, OngoingInv
  <2> QED BY <2>1, <2>2, BatchHeights DEF Taken, Follows
<1>9. Batched \in Nat /\ Taken <= Batched /\ Received = Batched
  <2>1. nextBatch # {} => IsBatch(nextBatch) /\ Min(nextBatch) = Taken + 1
    BY <1>1 DEF PipelineInv
  <2> QED BY <1>1, <1>8, <2>1, BatchHeights DEF Batched, Received
<1> HIDE DEF h
<1>10. CASE h <= started.sequencer
  <2>1. nextBatch' = nextBatch /\ pending' = pending
    BY <1>8, <1>10 DEF ReceiveBlock, h
  <2>2. ongoing.stage = "none" /\ nextBatch = {}
    BY <1>1, <1>4, <1>5, <1>6, <1>8, <1>9, <1>10 DEF PipelineInv
  <2>3. Received' = started.sequencer
    BY <1>1, <2>1, <2>2 DEF Received, Batched, Taken
  <2>4. PipelineInv'
    BY <1>1, <1>4, <1>5, <1>6, <1>8, <1>10, <2>1, <2>2, <2>3 DEF PipelineInv
  <2>5. TypeOK'
    BY <1>1, <1>5, <2>1 DEF TypeOK
  <2>6. MemoryInv'
    BY <1>1, <2>4 DEF MemoryInv
  <2> QED BY <1>2, <1>3, <1>7, <2>5, <2>6 DEF IInv
<1>11. CASE ~(h <= started.sequencer)
  <2>1. h = Batched + 1
    <3>1. CASE Sent - Len(blocks) < Received
      BY <1>1, <1>4, <1>5, <1>6, <1>8, <1>9, <1>11, <3>1
      DEF PipelineInv, Received, Batched, Taken
    <3>2. CASE ~(Sent - Len(blocks) < Received)
      BY <1>1, <1>4, <1>5, <1>6, <1>8, <1>9, <3>2 DEF PipelineInv
    <3> QED BY <3>1, <3>2
  <2>2. CASE Fits(h) /\ nextBatch' = nextBatch \cup {h} /\ pending' = pending
    <3>1. /\ IsBatch(nextBatch') /\ Min(nextBatch') = Taken + 1
          /\ Max(nextBatch') = h
      <4>1. CASE nextBatch = {}
        <5>1. nextBatch' = {h} /\ h = Taken + 1
          BY <2>1, <2>2, <4>1 DEF Batched
        <5> QED BY <1>5, <5>1, SingletonBatch
      <4>2. CASE nextBatch # {}
        <5>1. IsBatch(nextBatch) /\ Min(nextBatch) = Taken + 1 /\ h = Max(nextBatch) + 1
          BY <1>1, <2>1, <4>2 DEF PipelineInv, Batched
        <5> QED BY <1>5, <2>2, <5>1, GrowBatch
      <4> QED BY <4>1, <4>2
    <3>2. nextBatch' # {} /\ nextBatch' \in SUBSET Heights
      BY <3>1, BatchHeights
    <3>3. Received' = h
      BY <1>1, <2>2, <3>1, <3>2 DEF Received, Batched
    <3>4. PipelineInv'
      BY <1>1, <1>4, <1>6, <1>8, <2>2, <3>1, <3>2, <3>3 DEF PipelineInv
    <3>5. TypeOK'
      BY <1>1, <1>5, <2>2, <3>2 DEF TypeOK
    <3>6. MemoryInv'
      BY <1>1, <3>4 DEF MemoryInv
    <3> QED BY <1>2, <1>3, <1>7, <3>5, <3>6 DEF IInv
  <2>3. CASE nextBatch # {} /\ nextBatch' = nextBatch /\ pending' = h
    <3>1. nextBatch # {}
      BY <2>3
    <3>2. Batched' = Batched /\ Received' = h
      BY <1>4, <1>8, <2>3 DEF Received, Batched
    <3>3. PipelineInv'
      BY <1>1, <1>4, <1>6, <1>8, <2>1, <2>3, <3>1, <3>2 DEF PipelineInv
    <3>4. TypeOK'
      BY <1>1, <1>5, <1>8, <2>3, RelayerAssumption DEF TypeOK
    <3>5. MemoryInv'
      BY <1>1, <3>3 DEF MemoryInv
    <3> QED BY <1>2, <1>3, <1>7, <3>4, <3>5 DEF IInv
  <2> QED BY <1>11, <2>2, <2>3 DEF ReceiveBlock, h
<1> QED BY <1>10, <1>11

(* A block that does not fit alone ends the submitter.                     *)
LEMMA OversizedBlockStep == ASSUME IInv, OversizedBlock PROVE IInv'
<1>1. /\ TypeOK /\ phase = "run" /\ phase' = "closing"
      /\ blocks \in Seq(Heights) /\ blocks # << >> /\ blocks' = Tail(blocks)
      /\ UNCHANGED <<disk, nextFetch, forward, nextBatch, pending, started, ongoing, mempool,
                     celestia, failed, faults>>
  BY DEF IInv, TypeOK, OversizedBlock, external, readerVars
<1>2. CelestiaInv' /\ MempoolInv' /\ DiskInv'
  BY <1>1, ExternalFrame DEF IInv
<1>3. OngoingInv'
  BY <1>1 DEF IInv, OngoingInv
<1>4. Sent' = Sent /\ Sent \in Int
  BY <1>1, RelayerAssumption DEF TypeOK, Sent
<1>5. /\ Len(blocks) \in Nat /\ Len(blocks) > 0
      /\ blocks' \in Seq(Heights) /\ Len(blocks') = Len(blocks) - 1
      /\ \A i \in 1..Len(blocks') : blocks'[i] = blocks[i + 1]
  BY <1>1, HeadTailProperties, LenProperties
<1>6. ReaderInv'
  BY <1>1, <1>4, <1>5 DEF IInv, ReaderInv
<1>7. TypeOK'
  BY <1>1, <1>5 DEF TypeOK
<1>8. MemoryInv'
  BY <1>1 DEF MemoryInv
<1> QED BY <1>2, <1>3, <1>6, <1>7, <1>8 DEF IInv

(* A step of the submission in flight leaves the queue behind it alone.    *)
LEMMA InFlightFrame ==
    ASSUME IInv, UNCHANGED submitterFrame,
           ongoing.stage # "none", ongoing'.stage # "none",
           ongoing'.heights = ongoing.heights
    PROVE  ReaderInv' /\ MemoryInv'
<1>1. UNCHANGED <<phase, nextFetch, forward, blocks, nextBatch, pending, started>>
  BY DEF submitterFrame, readerVars
<1>2. ReaderInv' /\ Sent' = Sent
  BY <1>1 DEF IInv, ReaderInv, Sent
<1>3. Taken' = Taken /\ Batched' = Batched /\ Received' = Received
  BY <1>1 DEF Taken, Batched, Received
<1>4. phase \in {"run", "closing"}
  BY DEF IInv, OngoingInv
<1>5. PipelineInv => PipelineInv'
  BY <1>1, <1>2, <1>3 DEF PipelineInv
<1>6. MemoryInv'
  BY <1>1, <1>4, <1>5 DEF IInv, MemoryInv
<1> QED BY <1>2, <1>6

(* try_prepare and into_prepared: the file names the new transaction.      *)
LEMMA PrepareStep == ASSUME IInv, NEW fee \in Fees, Prepare(fee) PROVE IInv'
<1> DEFINE tx == TryPrepare(fee)
<1> USE DEF Prepare, Submitting, external
<1>1. /\ TypeOK /\ CelestiaInv /\ ongoing.stage = "prepare" /\ started = disk.last
      /\ Follows(ongoing.heights, started) /\ phase \in {"run", "closing"}
      /\ UNCHANGED <<phase, started, mempool, celestia, failed, faults>>
      /\ AccountNonce' = AccountNonce
  BY DEF IInv, OngoingInv, submitterFrame, AccountNonce
<1>2. /\ disk'.state = "prepared" /\ disk'.last = disk.last /\ disk'.tx = tx
      /\ disk' = [state |-> "prepared", last |-> disk.last, tx |-> tx]
      /\ ongoing'.stage = "broadcast" /\ ongoing'.tx = tx
      /\ ongoing'.heights = ongoing.heights /\ tx.heights = ongoing.heights
      /\ tx.nonce = AccountNonce
  BY <1>1 DEF TypeOK, PreparedState, TryPrepare
<1>3. tx \in Txs /\ AccountNonce \in Nat
  BY <1>1, LenProperties DEF TypeOK, TryPrepare, Txs, AccountNonce
<1>4. TypeOK'
  BY <1>1, <1>3 DEF TypeOK, PreparedState, submitterFrame, readerVars
<1> HIDE DEF tx
<1>5. CelestiaInv'
  BY <1>1 DEF CelestiaInv, Posted
<1>6. MempoolInv'
  BY <1>1, <1>2 DEF IInv, MempoolInv, LastPosted
<1>7. DiskInv'
  BY <1>1, <1>2, <1>3 DEF IInv, DiskInv, Recorded, LastPosted, Follows
<1>8. OngoingInv'
  BY <1>1, <1>2 DEF OngoingInv
<1>9. ReaderInv' /\ MemoryInv'
  BY <1>1, <1>2, InFlightFrame
<1> QED BY <1>4, <1>5, <1>6, <1>7, <1>8, <1>9 DEF IInv

(* Whatever the answer to a broadcast or to a confirmation with a timeout, *)
(* Celestia has at most the prepared transaction in addition.              *)
LEMMA AttemptStep ==
    ASSUME IInv, ongoing.stage \in {"broadcast", "timedout"},
           NEW s \in {"confirm", "timedout", "prepare"},
           ongoing' = [ongoing EXCEPT !.stage = s],
           \/ mempool' = mempool
           \/ Acceptable(ongoing.tx) /\ mempool' = {ongoing.tx},
           UNCHANGED <<disk, submitterFrame, celestia, failed>>,
           faults' \in 0..MaxFaults
    PROVE  IInv'
<1>1. /\ TypeOK /\ CelestiaInv /\ disk.state = "prepared" /\ disk.tx = ongoing.tx
      /\ started = disk.last /\ phase \in {"run", "closing"}
      /\ Follows(ongoing.heights, started) /\ ongoing.tx.heights = ongoing.heights
      /\ Follows(ongoing.tx.heights, disk.last) /\ Recorded(disk.last)
      /\ ongoing.tx \in Txs
  BY DEF IInv, OngoingInv, DiskInv, TypeOK
<1>2. /\ ongoing'.stage = s /\ ongoing'.heights = ongoing.heights
      /\ ongoing'.tx = ongoing.tx
      /\ UNCHANGED <<disk, celestia, failed, phase, nextFetch, forward, blocks, nextBatch,
                     pending, started>>
      /\ AccountNonce' = AccountNonce
  BY <1>1 DEF TypeOK, submitterFrame, readerVars, AccountNonce
<1>3. TypeOK'
  BY <1>1, <1>2 DEF TypeOK
<1>4. CelestiaInv'
  BY <1>1, <1>2 DEF CelestiaInv, Posted
<1>5. MempoolInv' /\ DiskInv'
  <2>1. CASE mempool' = mempool
    BY <1>2, <2>1, ExternalFrame DEF IInv
  <2>2. CASE Acceptable(ongoing.tx) /\ mempool' = {ongoing.tx}
    <3>1. ongoing.tx.nonce = AccountNonce
      BY <2>2 DEF Acceptable
    <3>2. LastPosted \in Nat /\ LastPosted' = LastPosted
      BY <1>1, <1>2, LastPostedType, RelayerAssumption DEF LastPosted
    <3>3. disk.last.sequencer \in Nat /\ disk.last.sequencer <= LastPosted
      BY <1>1, RelayerAssumption DEF TypeOK, Submissions, Recorded
    <3>4. /\ IsBatch(ongoing.tx.heights)
          /\ Min(ongoing.tx.heights) <= LastPosted + 1
          /\ Max(ongoing.tx.heights) >= disk.last.sequencer
      BY <1>1, <3>2, <3>3, BatchHeights DEF Follows
    <3>5. MempoolInv'
      BY <1>2, <2>2, <3>1, <3>2, <3>4 DEF MempoolInv
    <3>6. DiskInv'
      BY <1>1, <1>2, <2>2, <3>1, <3>2 DEF IInv, DiskInv, Recorded
    <3> QED BY <3>5, <3>6
  <2> QED BY <2>1, <2>2
<1>6. OngoingInv'
  BY <1>1, <1>2 DEF OngoingInv
<1>7. ReaderInv' /\ MemoryInv'
  BY <1>2, InFlightFrame
<1> QED BY <1>3, <1>4, <1>5, <1>6, <1>7 DEF IInv

(* try_submit's broadcast: accepted, rejected, or without an answer; and a *)
(* confirmation that times out.                                            *)
LEMMA AttemptSteps ==
    ASSUME IInv, BroadcastOk \/ BroadcastRejected \/ BroadcastLost \/ ConfirmTimesOut
    PROVE  IInv'
<1> USE DEF Submitting, external
<1>1. faults \in 0..MaxFaults /\ TypeOK
  BY DEF IInv, TypeOK
<1>2. CASE BroadcastOk
  BY <1>1, <1>2, AttemptStep DEF BroadcastOk
<1>3. CASE BroadcastRejected
  BY <1>1, <1>3, AttemptStep DEF BroadcastRejected
<1>4. CASE BroadcastLost
  <2>1. PICK s \in {"timedout", "prepare"} : ongoing' = [ongoing EXCEPT !.stage = s]
    BY <1>4 DEF BroadcastLost
  <2>2. \/ mempool' = mempool
        \/ Acceptable(ongoing.tx) /\ mempool' = {ongoing.tx}
    BY <1>4 DEF BroadcastLost
  <2>3. faults' \in 0..MaxFaults
    BY <1>1, <1>4, FaultsBounded DEF BroadcastLost
  <2> QED BY <1>4, <2>1, <2>2, <2>3, AttemptStep DEF BroadcastLost
<1>5. CASE ConfirmTimesOut
  <2>1. faults' \in 0..MaxFaults
    BY <1>1, <1>5, FaultsBounded DEF ConfirmTimesOut
  <2> QED BY <1>5, <2>1, AttemptStep DEF ConfirmTimesOut
<1> QED BY <1>2, <1>3, <1>4, <1>5

(* confirm_submission: the file records the transaction as completed.      *)
LEMMA ConfirmStep == ASSUME IInv, Confirm PROVE IInv'
<1> DEFINE last == Completed(ongoing.tx)
<1>1. /\ TypeOK /\ CelestiaInv /\ ongoing.stage \in {"confirm", "timedout"}
      /\ disk.state = "prepared" /\ disk.tx = ongoing.tx
      /\ started = disk.last /\ phase \in {"run", "closing"}
      /\ Follows(ongoing.heights, started) /\ ongoing.tx.heights = ongoing.heights
      /\ ongoing.tx \in Txs /\ Included(ongoing.tx)
      /\ ongoing.tx.nonce \in {AccountNonce, AccountNonce - 1}
      /\ ongoing.tx.nonce # AccountNonce => mempool = {}
  BY DEF IInv, OngoingInv, DiskInv, TypeOK, Confirm, Submitting
<1>2. /\ Len(celestia) > 0 /\ celestia[Len(celestia)] = ongoing.tx
      /\ last = [celestia |-> Len(celestia), sequencer |-> Max(ongoing.heights)]
      /\ last \in Submissions /\ Recorded(last) /\ mempool = {}
      /\ Len(celestia) \in Nat
  BY <1>1, CompletedIsNewest, LenProperties DEF TypeOK
<1> HIDE DEF last
<1>3. /\ ongoing'.stage = "done" /\ ongoing'.heights = ongoing.heights
      /\ ongoing'.tx = ongoing.tx
      /\ disk' = [state |-> "started", last |-> last, tx |-> NoTx]
      /\ UNCHANGED <<celestia, failed, mempool, phase, nextFetch, forward, blocks, nextBatch,
                     pending, started, faults>>
      /\ AccountNonce' = AccountNonce
  BY <1>1
  DEF TypeOK, Confirm, external, submitterFrame, readerVars, StartedState, last, AccountNonce
<1>4. TypeOK'
  <2>1. NoTx \in Txs
    BY RelayerAssumption DEF NoTx, Txs
  <2>2. ongoing' = [ongoing EXCEPT !.stage = "done"]
    BY DEF Confirm
  <2> QED BY <1>1, <1>2, <1>3, <2>1, <2>2 DEF TypeOK
<1>5. CelestiaInv'
  BY <1>1, <1>3 DEF CelestiaInv, Posted
<1>6. MempoolInv'
  BY <1>2, <1>3 DEF MempoolInv
<1>7. DiskInv'
  BY <1>2, <1>3 DEF DiskInv, Recorded, LastPosted
<1>8. OngoingInv'
  BY <1>1, <1>2, <1>3 DEF OngoingInv
<1>9. ReaderInv' /\ MemoryInv'
  BY <1>1, <1>3, InFlightFrame DEF Confirm
<1> QED BY <1>4, <1>5, <1>6, <1>7, <1>8, <1>9 DEF IInv

(* Celestia includes the transaction that waits.                           *)
LEMMA IncludedStep == ASSUME IInv, NEW tx \in mempool, Include(tx) PROVE IInv'
<1>1. /\ TypeOK /\ CelestiaInv /\ mempool' = {} /\ celestia' = Append(celestia, tx)
      /\ tx \in Txs /\ tx.nonce = AccountNonce /\ IsBatch(tx.heights)
      /\ Min(tx.heights) <= LastPosted + 1
      /\ Max(tx.heights) >= disk.last.sequencer
      /\ UNCHANGED <<disk, phase, nextFetch, forward, blocks, nextBatch, pending, started,
                     ongoing, failed, faults>>
  BY DEF IInv, TypeOK, MempoolInv, Include, submitterFrame, readerVars
<1>2. /\ celestia' \in Seq(Txs) /\ Len(celestia) \in Nat /\ Len(celestia') = Len(celestia) + 1
      /\ \A n \in 1..Len(celestia) : celestia'[n] = celestia[n]
      /\ celestia'[Len(celestia) + 1] = tx
      /\ AccountNonce \in Nat /\ AccountNonce' = AccountNonce + 1
  BY <1>1, AppendProperties, LenProperties DEF TypeOK, AccountNonce
<1>3. TypeOK'
  BY <1>1, <1>2 DEF TypeOK
<1>4. LastPosted' = Max(tx.heights) /\ LastPosted \in Nat
  BY <1>1, <1>2, LastPostedType, RelayerAssumption DEF LastPosted
<1>5. Posted \subseteq Posted' /\ tx.heights \subseteq Posted'
  BY <1>2 DEF Posted
<1>6. CelestiaInv'
  <2> SUFFICES ASSUME NEW n \in 1..Len(celestia')
               PROVE  /\ celestia'[n].nonce < AccountNonce'
                      /\ \A m \in 1..(n - 1) : celestia'[m].nonce < celestia'[n].nonce
                      /\ IsBatch(celestia'[n].heights)
                      /\ Min(celestia'[n].heights)
                           <= 1 + (IF n = 1 THEN 0 ELSE Max(celestia'[n - 1].heights))
                      /\ 1..Max(celestia'[n].heights) \subseteq Posted'
    BY DEF CelestiaInv
  <2>1. CASE n \in 1..Len(celestia)
    <3>1. /\ celestia'[n] = celestia[n] /\ (n # 1 => celestia'[n - 1] = celestia[n - 1])
          /\ \A m \in 1..(n - 1) : celestia'[m] = celestia[m]
      BY <1>2, <2>1
    <3>2. celestia[n].nonce \in Nat /\ celestia[n].nonce < AccountNonce
      BY <1>1, <2>1, NonceType DEF CelestiaInv
    <3>3. celestia'[n].nonce < AccountNonce'
      BY <1>2, <3>1, <3>2
    <3> QED BY <1>1, <1>5, <2>1, <3>1, <3>3 DEF CelestiaInv
  <2>2. CASE n = Len(celestia) + 1
    <3>1. celestia'[n] = tx
      BY <1>2, <2>2
    <3>2. (IF n = 1 THEN 0 ELSE Max(celestia'[n - 1].heights)) = LastPosted
      BY <1>2, <2>2 DEF LastPosted
    <3>3. 1..LastPosted \subseteq Posted
      BY <1>1, <1>2 DEF CelestiaInv, LastPosted
    <3>4. 1..Max(tx.heights) \subseteq Posted'
      <4>1. tx.heights = Min(tx.heights)..Max(tx.heights)
        BY <1>1 DEF IsBatch
      <4>2. Min(tx.heights) \in Nat /\ Max(tx.heights) \in Nat
        BY <1>1, BatchHeights
      <4>3. SUFFICES ASSUME NEW k \in 1..Max(tx.heights) PROVE k \in Posted'
        OBVIOUS
      <4>4. CASE k <= LastPosted
        BY <1>4, <1>5, <3>3, <4>2, <4>4
      <4>5. CASE ~(k <= LastPosted)
        <5>1. k \in Min(tx.heights)..Max(tx.heights)
          BY <1>1, <1>4, <4>2, <4>5
        <5> QED BY <1>5, <4>1, <5>1
      <4> QED BY <4>4, <4>5
    <3>5. \A m \in 1..(n - 1) : celestia'[m].nonce < celestia'[n].nonce
      BY <1>1, <1>2, <2>2, <3>1 DEF CelestiaInv
    <3>6. celestia'[n].nonce < AccountNonce'
      BY <1>1, <1>2, <3>1
    <3> QED BY <1>1, <1>2, <1>4, <2>2, <3>1, <3>2, <3>4, <3>5, <3>6, BatchHeights
  <2> QED BY <1>2, <2>1, <2>2
<1>7. MempoolInv'
  BY <1>1 DEF MempoolInv
<1>8. DiskInv'
  <2>1. disk.tx.nonce = AccountNonce \/ disk.state # "prepared"
    BY <1>1 DEF IInv, DiskInv
  <2>2. /\ disk.last.sequencer \in Nat /\ disk.last.celestia \in Nat
        /\ disk.last.celestia <= Len(celestia)
        /\ disk.last.sequencer > 0 =>
             /\ disk.last.celestia > 0
             /\ Max(celestia[disk.last.celestia].heights) = disk.last.sequencer
    BY <1>1, RelayerAssumption DEF IInv, DiskInv, Recorded, TypeOK, Submissions
  <2>3. Max(tx.heights) \in Nat
    BY <1>1, BatchHeights
  <2>4. disk.last.celestia > 0 => celestia'[disk.last.celestia] = celestia[disk.last.celestia]
    BY <1>2, <2>2
  <2>5. Recorded(disk.last)'
    BY <1>1, <1>2, <1>4, <2>2, <2>3, <2>4 DEF Recorded
  <2> QED BY <1>1, <1>2, <2>1, <2>5 DEF IInv, DiskInv, Follows
<1>9. OngoingInv'
  BY <1>1, <1>2 DEF IInv, OngoingInv
<1>10. ReaderInv'
  BY <1>1 DEF IInv, ReaderInv, Sent
<1>11. MemoryInv'
  BY <1>1 DEF IInv, MemoryInv, PipelineInv, Received, Batched, Taken, Sent
<1> QED BY <1>3, <1>6, <1>7, <1>8, <1>9, <1>10, <1>11 DEF IInv

(* Celestia drops what waits; the relayer is told to stop, stops, or       *)
(* crashes.                                                                *)
LEMMA EnvironmentSteps ==
    ASSUME IInv, Evict \/ IncludeFailed \/ Shutdown \/ Exit \/ Crash
    PROVE  IInv'
<1>1. TypeOK /\ faults \in 0..MaxFaults
  BY DEF IInv, TypeOK
<1>2. CASE Evict \/ IncludeFailed
  <2>1. /\ faults' \in 0..MaxFaults /\ mempool # {} /\ mempool' = {}
        /\ failed' \in {failed, failed + 1}
        /\ UNCHANGED <<disk, phase, nextFetch, forward, blocks, nextBatch, pending, started,
                       ongoing, celestia>>
    BY <1>1, <1>2, FaultsBounded DEF Evict, IncludeFailed, submitterFrame, readerVars
  <2>2. TypeOK'
    BY <1>1, <2>1 DEF TypeOK
  <2>3. /\ AccountNonce \in Nat
        /\ AccountNonce' \in {AccountNonce, AccountNonce + 1}
    BY SMTT(30), <1>1, <2>1, LenProperties DEF TypeOK, AccountNonce
  <2>4. CelestiaInv'
    <3>1. \A n \in 1..Len(celestia) :
             celestia[n].nonce \in Nat /\ celestia[n].nonce < AccountNonce
      BY <1>1, NonceType DEF IInv, CelestiaInv
    <3>2. \A n \in 1..Len(celestia) : celestia[n].nonce < AccountNonce'
      BY <2>3, <3>1
    <3> QED BY <2>1, <3>2 DEF IInv, CelestiaInv, Posted
  <2>5. MempoolInv'
    BY <2>1 DEF MempoolInv
  <2>6. DiskInv'
    BY <2>1, <2>3 DEF IInv, DiskInv, Recorded, LastPosted, Follows
  <2>7. OngoingInv'
    BY <2>1, OngoingFrame DEF IInv
  <2>8. ReaderInv' /\ MemoryInv'
    BY <2>1 DEF IInv, ReaderInv, MemoryInv, PipelineInv, Received, Batched, Taken, Sent
  <2> QED BY <2>2, <2>4, <2>5, <2>6, <2>7, <2>8 DEF IInv
<1>3. CASE Shutdown
  <2>1. /\ faults' \in 0..MaxFaults /\ phase \in {"init", "run"} /\ phase' = "closing"
        /\ UNCHANGED <<disk, nextFetch, forward, blocks, nextBatch, pending, started,
                       ongoing, celestia, failed, mempool>>
    BY <1>1, <1>3, FaultsBounded DEF Shutdown, Reading, readerVars, external
  <2>2. TypeOK'
    BY <1>1, <2>1 DEF TypeOK
  <2>3. CelestiaInv' /\ MempoolInv' /\ DiskInv'
    BY <2>1, ExternalFrame DEF IInv
  <2>4. OngoingInv'
    BY <2>1 DEF IInv, OngoingInv
  <2>5. ReaderInv' /\ MemoryInv'
    BY <2>1 DEF IInv, ReaderInv, MemoryInv, Sent
  <2> QED BY <2>2, <2>3, <2>4, <2>5 DEF IInv
<1>4. CASE Exit \/ Crash
  <2>1. /\ faults' \in 0..MaxFaults /\ phase' = "down" /\ nextFetch' = 1 /\ forward' = 0
        /\ blocks' = << >> /\ nextBatch' = {} /\ pending' = 0 /\ started' = Nothing
        /\ ongoing' = Idle /\ UNCHANGED <<disk, celestia, failed, mempool>>
    BY <1>1, <1>4, FaultsBounded DEF Exit, Crash, LoseMemory, external
  <2>2. Nothing \in Submissions /\ NoTx \in Txs
    BY RelayerAssumption DEF Nothing, Submissions, NoTx, Txs
  <2>3. TypeOK'
    BY <1>1, <2>1, <2>2, RelayerAssumption DEF TypeOK, Idle
  <2>4. CelestiaInv' /\ MempoolInv' /\ DiskInv'
    BY <2>1, ExternalFrame DEF IInv
  <2>5. OngoingInv'
    BY <2>1 DEF OngoingInv, Idle
  <2>6. ReaderInv' /\ MemoryInv'
    BY <2>1 DEF ReaderInv, MemoryInv, Sent
  <2> QED BY <2>3, <2>4, <2>5, <2>6 DEF IInv
<1> QED BY <1>2, <1>3, <1>4

(* A step that changes nothing.                                            *)
LEMMA StutteringStep == ASSUME IInv, UNCHANGED vars PROVE IInv'
<1>1. UNCHANGED <<disk, phase, nextFetch, forward, blocks, nextBatch, pending, started,
                  ongoing, mempool, celestia, failed, faults>>
  BY DEF vars
<1>2. TypeOK'
  BY <1>1 DEF IInv, TypeOK
<1>3. CelestiaInv' /\ MempoolInv' /\ DiskInv'
  BY <1>1, ExternalFrame DEF IInv
<1>4. OngoingInv'
  BY <1>1, OngoingFrame DEF IInv
<1>5. ReaderInv' /\ MemoryInv'
  BY <1>1 DEF IInv, ReaderInv, MemoryInv, PipelineInv, Received, Batched, Taken, Sent
<1> QED BY <1>2, <1>3, <1>4, <1>5 DEF IInv

-----------------------------------------------------------------------------
(* The theorems *)

(* IInv holds initially: nothing is posted and nothing is recorded.        *)
LEMMA InitIInv == Init => IInv
<1> SUFFICES ASSUME Init PROVE IInv
  OBVIOUS
<1>1. TypeOK
  <2>1. Nothing \in Submissions /\ NoTx \in Txs
    BY RelayerAssumption DEF Nothing, Submissions, NoTx, Txs
  <2> QED BY <2>1, RelayerAssumption DEF Init, TypeOK, Idle
<1>2. CelestiaInv /\ MempoolInv
  BY DEF Init, CelestiaInv, MempoolInv
<1>3. DiskInv
  BY DEF Init, DiskInv, Recorded, LastPosted, Nothing
<1>4. OngoingInv
  BY DEF Init, OngoingInv, Idle
<1>5. ReaderInv /\ MemoryInv
  BY DEF Init, ReaderInv, MemoryInv, Sent
<1> QED BY <1>1, <1>2, <1>3, <1>4, <1>5 DEF IInv

(* Every step of the relayer, of Celestia and of their environment keeps   *)
(* the invariant.                                                          *)
LEMMA NextIInv == IInv /\ [Next]_vars => IInv'
<1> SUFFICES ASSUME IInv, [Next]_vars PROVE IInv'
  OBVIOUS
<1>1. CASE Start
  BY <1>1, StartStep
<1>2. CASE BlockFetched \/ ForwardOnceFree
  BY <1>2, BlockFetchedStep, ForwardOnceFreeStep
<1>3. CASE StartFromFile \/ ConfirmLastSession \/ RevertLastSession
  BY <1>3, StartFromFileStep, ConfirmLastSessionStep, RevertLastSessionStep
<1>4. CASE SubmissionResult \/ TakeSubmission \/ ReceiveBlock \/ OversizedBlock
  BY <1>4, SubmissionResultStep, TakeSubmissionStep, ReceiveBlockStep, OversizedBlockStep
<1>5. CASE \E fee \in Fees : Prepare(fee)
  BY <1>5, PrepareStep
<1>6. CASE BroadcastOk \/ BroadcastRejected \/ BroadcastLost \/ ConfirmTimesOut
  BY <1>6, AttemptSteps
<1>7. CASE Confirm
  BY <1>7, ConfirmStep
<1>8. CASE IncludeStep
  BY <1>8, IncludedStep DEF IncludeStep
<1>9. CASE Evict \/ IncludeFailed \/ Shutdown \/ Exit \/ Crash
  BY <1>9, EnvironmentSteps
<1>10. CASE Finished \/ UNCHANGED vars
  BY <1>10, StutteringStep DEF Finished
<1> QED
  BY <1>1, <1>2, <1>3, <1>4, <1>5, <1>6, <1>7, <1>8, <1>9, <1>10
  DEF Next, SubmitterStep, FaultStep

(* IInv is an invariant of the relayer.                                    *)
THEOREM Invariance == Spec => []IInv
BY InitIInv, NextIInv, PTL DEF Spec

(* The state of the relayer keeps its types: batches hold heights of the   *)
(* Sequencer's blocks only, and faults stay within their bound.            *)
THEOREM TypeCorrect == Spec => []TypeOK
<1>1. IInv => TypeOK
  BY DEF IInv
<1> QED BY <1>1, Invariance, PTL

(* Whatever crashes, shutdowns, timeouts, lost answers and evictions       *)
(* happen, Celestia gets the blocks as intervals, each of which begins at  *)
(* most one height behind the previous one (try_submit, try_add).          *)
THEOREM PostedInOrderHolds == Spec => []PostedInOrder
<1>1. IInv => PostedInOrder
  <2> SUFFICES ASSUME IInv, NEW n \in 1..Len(celestia)
               PROVE  /\ Min(celestia[n].heights)
                           <= (IF n = 1 THEN 0 ELSE Max(celestia[n - 1].heights)) + 1
                      /\ celestia[n].heights =
                           Min(celestia[n].heights) .. Max(celestia[n].heights)
    BY DEF PostedInOrder
  <2>1. /\ IsBatch(celestia[n].heights)
        /\ Min(celestia[n].heights) <= 1 + (IF n = 1 THEN 0 ELSE Max(celestia[n - 1].heights))
    BY DEF IInv, CelestiaInv
  <2>2. CASE n = 1
    BY <2>1, <2>2 DEF IsBatch
  <2>3. CASE n # 1
    <3>1. n - 1 \in 1..Len(celestia)
      BY <2>3, LenProperties DEF IInv, TypeOK
    <3>2. Max(celestia[n - 1].heights) \in Nat
      BY <3>1, BatchHeights DEF IInv, CelestiaInv
    <3> QED BY <2>1, <2>3, <3>2 DEF IsBatch
  <2> QED BY <2>2, <2>3
<1> QED BY <1>1, Invariance, PTL

(* The submission-state file never claims more than Celestia holds, at any *)
(* moment at which a crash may make it the only thing that is left         *)
(* (into_prepared, into_started, revert).                                  *)
THEOREM FileIsTrueHolds == Spec => []FileIsTrue
<1>1. IInv => FileIsTrue
  <2> SUFFICES ASSUME IInv PROVE FileIsTrue
    OBVIOUS
  <2>1. /\ disk.last.sequencer \in Nat /\ disk.last.celestia \in Nat /\ Len(celestia) \in Nat
        /\ Recorded(disk.last) /\ LastPosted \in Nat
    BY LenProperties, LastPostedType, RelayerAssumption
    DEF IInv, TypeOK, Submissions, DiskInv
  <2>2. disk.state = "prepared" => Max(disk.tx.heights) > disk.last.sequencer
    BY <2>1, BatchHeights DEF IInv, DiskInv, Follows
  <2>3. disk.last.sequencer > 0 =>
          /\ disk.last.celestia \in 1..Len(celestia)
          /\ Max(celestia[disk.last.celestia].heights) = disk.last.sequencer
    BY <2>1 DEF Recorded
  <2>4. 1..disk.last.sequencer \subseteq Posted
    <3>1. CASE disk.last.sequencer > 0
      BY <2>3, <3>1 DEF IInv, CelestiaInv
    <3>2. CASE ~(disk.last.sequencer > 0)
      BY <2>1, <3>2
    <3> QED BY <3>1, <3>2
  <2> QED BY <2>2, <2>3, <2>4 DEF FileIsTrue
<1> QED BY <1>1, Invariance, PTL

(* No step takes back what the file records: neither the revert of an      *)
(* unconfirmed submission nor an attempt that starts from an older state.  *)
THEOREM FileNeverGoesBackHolds == Spec => FileNeverGoesBack
<1> DEFINE Forward == /\ disk'.last.sequencer >= disk.last.sequencer
                      /\ disk'.last.celestia >= disk.last.celestia
<1>1. IInv /\ [Next]_vars => [Forward]_vars
  <2> SUFFICES ASSUME IInv, Next PROVE Forward
    BY DEF vars
  <2>1. /\ TypeOK /\ CelestiaInv
        /\ disk.last.sequencer \in Nat /\ disk.last.celestia \in Nat
        /\ disk.last.celestia <= Len(celestia)
    BY RelayerAssumption DEF IInv, TypeOK, Submissions, DiskInv, Recorded
  <2>2. CASE disk'.last = disk.last
    BY <2>1, <2>2
  <2>3. CASE ConfirmLastSession \/ Confirm
    <3>1. PICK tx \in Txs : /\ Included(tx) /\ disk' = StartedState(Completed(tx))
                            /\ disk.state = "prepared" /\ tx = disk.tx
      BY <2>1, <2>3
      DEF IInv, OngoingInv, ConfirmLastSession, Confirm, Submitting, TypeOK
    <3>2. /\ tx.nonce \in {AccountNonce, AccountNonce - 1}
          /\ Follows(tx.heights, disk.last)
      BY <3>1 DEF IInv, DiskInv
    <3>3. Completed(tx) = [celestia |-> Len(celestia), sequencer |-> Max(tx.heights)]
      BY <2>1, <3>1, <3>2, CompletedIsNewest
    <3>4. /\ disk'.last.celestia = Len(celestia)
          /\ disk'.last.sequencer = Max(tx.heights)
      BY <3>1, <3>3 DEF StartedState
    <3> QED BY <2>1, <3>2, <3>4, BatchHeights DEF Follows
  <2>4. CASE ~(ConfirmLastSession \/ Confirm)
    <3>1. disk'.last = disk.last
      <4>1. CASE RevertLastSession
        BY <4>1 DEF RevertLastSession, StartedState
      <4>2. CASE \E fee \in Fees : Prepare(fee)
        BY <4>2 DEF Prepare, PreparedState, Submitting, IInv, OngoingInv
      <4>3. CASE ~(RevertLastSession \/ \E fee \in Fees : Prepare(fee))
        BY <2>4, <4>3
        DEF Next, SubmitterStep, FaultStep, Start, BlockFetched, ForwardOnceFree,
            StartFromFile, SubmissionResult, TakeSubmission, ReceiveBlock, OversizedBlock,
            BroadcastOk, BroadcastRejected, BroadcastLost, ConfirmTimesOut, IncludeStep, Include,
            IncludeFailed, Evict, Shutdown, Exit, Crash, LoseMemory, Finished, vars
      <4> QED BY <4>1, <4>2, <4>3
    <3> QED BY <2>2, <3>1
  <2> QED BY <2>3, <2>4
<1> QED BY <1>1, Invariance, PTL DEF Spec, FileNeverGoesBack

=============================================================================
