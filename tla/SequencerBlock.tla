---------------------------- MODULE SequencerBlock ----------------------------
(***************************************************************************)
(* Sequencer blocks (crates/astria-core, sequencerblock/v1): what the      *)
(* proposer commits to, the block that is built from a CometBFT block, its *)
(* filtered form for one reader, its split form for Celestia, and what is  *)
(* verified of each.  A map with an insertion order (IndexMap) is a        *)
(* sequence; an Option is a sequence of at most one element.               *)
(***************************************************************************)
EXTENDS Merkle, FiniteSets, FiniteSetsExt

Digest(item) == <<"digest", item>>

Map(Op(_), seq) == [k \in DOMAIN seq |-> Op(seq[k])]

-----------------------------------------------------------------------------
(* Rollup data.  A transaction is a sequence of actions [kind, id, data]:   *)
(* "submission" is a RollupDataSubmission, "lock" a BridgeLock.             *)

RollupData(action) == <<action.kind, action.data>>

(* the deposits that the execution of the transactions caches *)
Deposits(txs) ==
    LET locks == SelectSeq(FlattenSeq(txs), LAMBDA action : action.kind = "lock")
    IN  [id \in {lock.id : lock \in Range(locks)} |->
             Map(RollupData, SelectSeq(locks, LAMBDA lock : lock.id = id))]

(* the orders in which the HashMap of the deposits may be walked *)
Orders(deposits) == SetToSeqs(DOMAIN deposits)

(* entry(id).or_default().extend(data) of a map [id, transactions] *)
Extended(map, id, data) ==
    IF \E k \in DOMAIN map : map[k].id = id
    THEN Map(LAMBDA entry : IF entry.id = id THEN [entry EXCEPT !.transactions = @ \o data]
                                             ELSE entry, map)
    ELSE Append(map, [id |-> id, transactions |-> data])

SortedByKey(map) == SortSeq(map, LAMBDA a, b : a.id < b.id)

WithAction(map, action) ==
    IF action.kind = "submission" THEN Extended(map, action.id, <<RollupData(action)>>) ELSE map

WithDeposits(map, deposits, order) ==
    FoldLeft(LAMBDA datas, id : Extended(datas, id, deposits[id]), map, order)

(* the proposer's map, sorted before and after the deposits are added *)
GroupedByRollupId(txs) == SortedByKey(FoldLeft(WithAction, << >>, FlattenSeq(txs)))

ProposedDatas(txs, deposits, order) ==
    SortedByKey(WithDeposits(GroupedByRollupId(txs), deposits, order))

(* mutant: the ids stay in the order of the actions and of the HashMap *)
BuiltUnsorted(txs, deposits, order) ==
    WithDeposits(FoldLeft(WithAction, << >>, FlattenSeq(txs)), deposits, order)

(* the map of the block's builder *)
BuiltDatas(txs, deposits, order) ==
    SortedByKey(WithDeposits(
        FoldLeft(LAMBDA map, tx : FoldLeft(WithAction, map, tx), << >>, txs), deposits, order))

Ids(rollups) == Map(LAMBDA rollup : <<"id", rollup.id>>, rollups)

RollupIdsRoot(ids) == Root(FromLeaves(ids))

(* mutant: the leaf of a rollup does not contain its id *)
RollupLeafWithoutId(rollup) == <<"rollup", Root(FromLeaves(rollup.transactions))>>

RollupLeaf(rollup) == <<"rollup", rollup.id, Root(FromLeaves(rollup.transactions))>>

DeriveMerkleTree(rollups) == FromLeaves(Map(RollupLeaf, rollups))

GenerateRollupDatasCommitment(txs, deposits, order) ==
    LET datas == ProposedDatas(txs, deposits, order)
    IN  [datasRoot |-> Root(DeriveMerkleTree(datas)), idsRoot |-> RollupIdsRoot(Ids(datas))]

-----------------------------------------------------------------------------
(* The data of a CometBFT block, a sequence of items [kind, bytes].  Blocks *)
(* before the Aspen upgrade hold the two roots as they are ("raw").         *)

Item(kind, bytes) == [kind |-> kind, bytes |-> bytes]

CommitmentItems(commitment, typed) ==
    <<Item(IF typed THEN "txsRoot" ELSE "raw", commitment.datasRoot),
      Item(IF typed THEN "idsRoot" ELSE "raw", commitment.idsRoot)>>

BlockData(txs, order, typed, upgrades, extended) ==
    CommitmentItems(GenerateRollupDatasCommitment(txs, Deposits(txs), order), typed)
        \o (IF upgrades = << >> THEN << >> ELSE <<Item("upgrades", upgrades)>>)
        \o Map(LAMBDA info : Item("extended", <<"info", info>>), extended)
        \o Map(LAMBDA tx : Item("tx", <<"tx", tx>>), txs)

DataLeaves(data) == Map(LAMBDA item : Digest(item.bytes),
                        SelectSeq(data, LAMBDA item : item.kind # "upgrades"))

(* mutant: the leaf has the index of its item in the data *)
ItemsBefore(data, at) == at - 1

(* the number of leaves before item at of the data: upgrade hashes have none *)
LeavesBefore(data, at) ==
    Len(SelectSeq(SubSeq(data, 1, at - 1), LAMBDA item : item.kind # "upgrades"))

(* new_from_typed_data and new_from_untyped_data; the tree is that of the data *)
ExpandedWithTree(data, tree, typed, withExtended) ==
    LET hasUpgrades == typed /\ Len(data) > 2 /\ data[3].kind = "upgrades"
        at == IF hasUpgrades THEN 4 ELSE 3
        txs == SubSeq(data, IF withExtended THEN at + 1 ELSE at, Len(data))
    IN  [ok |-> /\ Map(LAMBDA item : item.kind, SubSeq(data, 1, 2))
                       = IF typed THEN <<"txsRoot", "idsRoot">> ELSE <<"raw", "raw">>
                /\ withExtended => Len(data) >= at /\ data[at].kind = "extended"
                /\ \A k \in DOMAIN txs : txs[k].kind = "tx",
         dataHash |-> Root(tree),
         txsRoot |-> data[1].bytes, txsProof |-> ConstructProof(tree, 0),
         idsRoot |-> data[2].bytes, idsProof |-> ConstructProof(tree, 1),
         upgrades |-> IF hasUpgrades THEN data[3].bytes ELSE << >>,
         extended |-> IF withExtended
                      THEN <<[bytes |-> data[at].bytes,
                              proof |-> ConstructProof(tree, LeavesBefore(data, at))]>>
                      ELSE << >>,
         txs |-> Map(LAMBDA item : item.bytes[2], txs)]

ExpandedBlockData(data, typed, withExtended) ==
    ExpandedWithTree(data, FromLeaves(DataLeaves(data)), typed, withExtended)

-----------------------------------------------------------------------------
(* The block *)

(* of the data and the builder's map *)
CanBuild(expanded, datas) ==
    /\ expanded.idsRoot = RollupIdsRoot(Ids(datas))
    /\ expanded.txsRoot = Root(DeriveMerkleTree(datas))

Build(expanded, datas, hash, height) ==
    LET tree == DeriveMerkleTree(datas)
    IN  [hash |-> hash,
         header |-> [height |-> height, txsRoot |-> expanded.txsRoot,
                     dataHash |-> expanded.dataHash],
         rollups |-> [k \in DOMAIN datas |->
                          [id |-> datas[k].id, transactions |-> datas[k].transactions,
                           proof |-> ConstructProof(tree, k - 1)]],
         txsProof |-> expanded.txsProof, idsProof |-> expanded.idsProof,
         upgrades |-> expanded.upgrades, extended |-> expanded.extended]

(* put_sequencer_block and the reads by height and by rollup id *)
Stored(block) ==
    [hash |-> block.hash, header |-> block.header,
     ids |-> Map(LAMBDA rollup : rollup.id, block.rollups),
     data |-> [id \in {r.id : r \in Range(block.rollups)} |->
                   CHOOSE r \in Range(block.rollups) : r.id = id],
     txsProof |-> block.txsProof, idsProof |-> block.idsProof,
     upgrades |-> block.upgrades, extended |-> block.extended]

GetSequencerBlock(stored) ==
    [hash |-> stored.hash, header |-> stored.header, rollups |-> Map(LAMBDA id : stored.data[id], stored.ids),
     txsProof |-> stored.txsProof, idsProof |-> stored.idsProof,
     upgrades |-> stored.upgrades, extended |-> stored.extended]

GetFilteredSequencerBlock(stored, wanted) ==
    [hash |-> stored.hash, header |-> stored.header,
     rollups |-> Map(LAMBDA id : stored.data[id],
                     SelectSeq(wanted, LAMBDA id : id \in Range(stored.ids))),
     allIds |-> SetToSortSeq(Range(stored.ids), <),
     txsProof |-> stored.txsProof, idsProof |-> stored.idsProof,
     upgrades |-> stored.upgrades, extended |-> stored.extended]

-----------------------------------------------------------------------------
(* Verification *)

IncludesTxsRoot(block) ==
    Verify(block.txsProof, Digest(block.header.txsRoot), block.header.dataHash)

AreRollupTxsIncluded(block) ==
    Verify(block.txsProof, Digest(Root(DeriveMerkleTree(block.rollups))), block.header.dataHash)

AreRollupIdsIncluded(ids, block) ==
    Verify(block.idsProof, Digest(RollupIdsRoot(Map(LAMBDA id : <<"id", id>>, ids))),
           block.header.dataHash)

IsExtendedIncluded(block) ==
    \A k \in DOMAIN block.extended :
        Verify(block.extended[k].proof, Digest(block.extended[k].bytes), block.header.dataHash)

DoRollupTransactionsMatchRoot(rollup, root) == Verify(rollup.proof, RollupLeaf(rollup), root)

IsSequencerBlock(block) ==
    /\ IncludesTxsRoot(block) /\ AreRollupTxsIncluded(block)
    /\ AreRollupIdsIncluded(Map(LAMBDA rollup : rollup.id, block.rollups), block)
    /\ IsExtendedIncluded(block)

IsFilteredSequencerBlock(block) ==
    /\ IncludesTxsRoot(block)
    /\ \A k \in DOMAIN block.rollups :
           DoRollupTransactionsMatchRoot(block.rollups[k], block.header.txsRoot)
    /\ AreRollupIdsIncluded(block.allIds, block)
    /\ IsExtendedIncluded(block)

-----------------------------------------------------------------------------
(* Celestia *)

SubmittedMetadata(block) ==
    [hash |-> block.hash, header |-> block.header,
     ids |-> Map(LAMBDA rollup : rollup.id, block.rollups),
     txsProof |-> block.txsProof, idsProof |-> block.idsProof,
     upgrades |-> block.upgrades, extended |-> block.extended]

SubmittedRollupData(block) ==
    Map(LAMBDA rollup : [hash |-> block.hash, id |-> rollup.id,
                         transactions |-> rollup.transactions, proof |-> rollup.proof],
        block.rollups)

IsUncheckedMetadata(metadata) == IsExtendedIncluded(metadata)

IsSubmittedMetadata(metadata) ==
    /\ IsUncheckedMetadata(metadata)
    /\ IncludesTxsRoot(metadata)
    /\ AreRollupIdsIncluded(metadata.ids, metadata)
=============================================================================
