----------------------------- MODULE BlockDelivery -----------------------------
(***************************************************************************)
(* How the data of a Sequencer block reaches a rollup: the Sequencer       *)
(* builds and stores the block; a conductor gets it filtered from the      *)
(* Sequencer (soft), or puts it together from the blobs that a relayer has *)
(* posted to Celestia (firm).  One Celestia height with several payloads,  *)
(* one of which may hold a block of another Sequencer chain.               *)
(***************************************************************************)
EXTENDS SequencerBlock

CONSTANTS RollupIds,       \* natural numbers: they are sorted
          Included,        \* the rollups that the relayer's filter lets pass
          Transactions,
          MaxTxs,          \* of all blocks
          MaxBlocks,
          MaxPayloads,
          Foreign          \* the transaction of the other chain's block

ASSUME DeliveryAssumption == RollupIds \subseteq Nat /\ Included \subseteq RollupIds

VARIABLES proposal,   \* the transactions of the block under construction
          chain,      \* the stored blocks
          celestia    \* the payloads posted, in order

vars == <<proposal, chain, celestia>>

Heights == DOMAIN chain

BlockHash(sequencer, h) == <<sequencer, h>>

-----------------------------------------------------------------------------
(* The Sequencer *)

ExecuteTransaction(tx) ==
    /\ Len(chain) < MaxBlocks
    /\ Len(proposal) + FoldLeft(LAMBDA n, b : n + b.count, 0, chain) < MaxTxs
    /\ proposal' = Append(proposal, tx)
    /\ UNCHANGED <<chain, celestia>>

(* the layouts of a block's data: before Aspen, in the block of an upgrade, *)
(* with and without vote extensions                                         *)
Layouts == [typed : BOOLEAN, upgrades : {<< >>, <<"change">>}, extended : {<< >>, <<"votes">>}]
ValidLayouts == {l \in Layouts : l.typed \/ (l.upgrades = << >> /\ l.extended = << >>)}

(* the proposer's data, of a proposer that walks the deposits in this order *)
Expanded(txs, order, l) ==
    ExpandedBlockData(BlockData(txs, order, l.typed, l.upgrades, l.extended),
                      l.typed, l.extended # << >>)

FinalizeBlock(l) ==
    LET deposits == Deposits(proposal)
        height == Len(chain) + 1
    IN  /\ Len(chain) < MaxBlocks
        /\ \E expanded \in {Expanded(proposal, order, l) : order \in Orders(deposits)},
              datas \in {BuiltDatas(proposal, deposits, order) : order \in Orders(deposits)} :
               /\ expanded.ok /\ CanBuild(expanded, datas)
               /\ chain' = Append(chain,
                      [count |-> Len(proposal),
                       stored |-> Stored(Build(expanded, datas, BlockHash("own", height), height))])
        /\ proposal' = << >>
        /\ UNCHANGED celestia

-----------------------------------------------------------------------------
(* The relayer *)

(* a payload of blocks: one list of metadata, one list of data per rollup *)
Payload(blocks) ==
    [metadata |-> Map(SubmittedMetadata, blocks),
     data |-> [id \in Included |->
                   SelectSeq(FlattenSeq(Map(SubmittedRollupData, blocks)),
                             LAMBDA elem : elem.id = id)]]

(* blocks first..last, perhaps once more after a fault *)
SubmitBlobs(first, last) ==
    LET blocks == [k \in 1..(last - first + 1) |->
                       GetSequencerBlock(chain[first + k - 1].stored)]
    IN  /\ Len(celestia) < MaxPayloads
        /\ \A k \in DOMAIN blocks : IsSequencerBlock(blocks[k])
        /\ celestia' = Append(celestia, Payload(blocks))
        /\ UNCHANGED <<proposal, chain>>

(* a block of another Sequencer chain *)
ForeignBlock(h) ==
    LET txs == <<Foreign>>
        layout == [typed |-> TRUE, upgrades |-> << >>, extended |-> << >>]
        order == CHOOSE o \in Orders(Deposits(txs)) : TRUE
    IN  Build(Expanded(txs, order, layout), BuiltDatas(txs, Deposits(txs), order),
              BlockHash("other", h), h)

(* someone else may have posted such a block to the same namespaces *)
Init ==
    /\ proposal = << >> /\ chain = << >>
    /\ celestia \in {<< >>, <<Payload(<<ForeignBlock(1)>>)>>}

Next ==
    \/ \E tx \in Transactions : ExecuteTransaction(tx)
    \/ \E l \in ValidLayouts : FinalizeBlock(l)
    \/ \E first, last \in Heights : first <= last /\ SubmitBlobs(first, last)

Spec == Init /\ [][Next]_vars

-----------------------------------------------------------------------------
(* The conductor *)

(* decode_raw_blobs: one entry that is not well formed takes its list along *)
DecodedMetadata(payloads) ==
    FlattenSeq(Map(LAMBDA p : IF \A k \in DOMAIN p.metadata : IsSubmittedMetadata(p.metadata[k])
                              THEN p.metadata ELSE << >>, payloads))

DecodedRollupData(payloads, id) ==
    LET wellFormed(list) == \A k \in DOMAIN list : IsProof(list[k].proof)
    IN  FlattenSeq(Map(LAMBDA p : IF id \in Included /\ wellFormed(p.data[id])
                                  THEN p.data[id] ELSE << >>, payloads))

(* verify_metadata: a map by block hash of what is not stale and at whose   *)
(* height the Sequencer has a commit with a quorum.  That the chain id or   *)
(* the hash is not the commit's is logged, and the metadata returned.       *)
VerifiedMetadata(metadata, next, committed) ==
    LET verified == {m \in Range(metadata) : m.header.height >= next
                                             /\ m.header.height \in committed}
    IN  [hash \in {m.hash : m \in verified} |-> CHOOSE m \in verified : m.hash = hash]

Reconstructed(metadata, transactions) ==
    [hash |-> metadata.hash, header |-> metadata.header, transactions |-> transactions, extended |-> metadata.extended]

(* mutant: the metadata stays in the map *)
MatchedAndKept(state, elem) ==
    IF elem.hash \in DOMAIN state.headers
         /\ DoRollupTransactionsMatchRoot(elem, state.headers[elem.hash].header.txsRoot)
    THEN [state EXCEPT !.blocks = Append(@, Reconstructed(state.headers[elem.hash],
                                                          elem.transactions))]
    ELSE state

(* remove_header_blob_matching_rollup_blob *)
Matched(state, elem) ==
    IF elem.hash \in DOMAIN state.headers
         /\ DoRollupTransactionsMatchRoot(elem, state.headers[elem.hash].header.txsRoot)
    THEN [headers |-> [hash \in DOMAIN state.headers \ {elem.hash} |-> state.headers[hash]],
          blocks |-> Append(state.blocks, Reconstructed(state.headers[elem.hash],
                                                        elem.transactions))]
    ELSE state

ReconstructBlocks(headers, data, id) ==
    LET matched == FoldLeft(Matched, [headers |-> headers, blocks |-> << >>], data)
        empty == {m \in Range(matched.headers) : id \notin Range(m.ids)}
    IN  matched.blocks \o Map(LAMBDA m : Reconstructed(m, << >>), SetToSeq(empty))

(* prepend_transactions_by_price_feed_if_exists *)
WithPrices(transactions, extended) ==
    Map(LAMBDA e : <<"prices", e.bytes>>, extended) \o transactions

FromReconstructed(block) ==
    [height |-> block.header.height,
     transactions |-> WithPrices(block.transactions, block.extended)]

FromSequencer(block, id) ==
    [height |-> block.header.height,
     transactions |-> WithPrices(
         FlattenSeq(Map(LAMBDA r : r.transactions,
                        SelectSeq(block.rollups, LAMBDA r : r.id = id))), block.extended)]

-----------------------------------------------------------------------------
(* the leaves of the trees that are made of the proposal *)
TreeLeaves ==
    LET deposits == Deposits(proposal)
        order == CHOOSE o \in Orders(deposits) : TRUE
        datas == ProposedDatas(proposal, deposits, order)
    IN  {Ids(datas), Map(RollupLeaf, datas)}
        \cup {rollup.transactions : rollup \in Range(datas)}
        \cup {DataLeaves(BlockData(proposal, order, l.typed, l.upgrades, l.extended)) :
                  l \in ValidLayouts}

(* Root and audit paths are those of RFC 6962, though the tree is a flat    *)
(* vector whose last subtrees change their shape with each leaf             *)
(* (LeafBuilder::drop, construct_proof, complete_parent_and_sibling).       *)
TreesAreRFC6962 ==
    \A leaves \in TreeLeaves :
        LET tree == FromLeaves(leaves) IN
        /\ Root(tree) = MTH(leaves)
        /\ \A i \in 0..(Len(leaves) - 1) : ConstructProof(tree, i).path = PATH(i, leaves)

(* A proof shows exactly what is in the tree.  The path of leaf i passes    *)
(* try_into_proof with every leaf index j.  If it has the length of j's     *)
(* path, the audit accepts a leaf if and only if the path is that of j and  *)
(* the leaf is there; if it is shorter, at most leaf i, though at index j;  *)
(* if it is longer, the audit panics                                        *)
(* (try_into_proof, reconstruct_root_with_leaf_hash, complete_parent).      *)
AuditsAreExact ==
    \A leaves \in TreeLeaves : \A tree \in {FromLeaves(leaves)} :
        LET proofs == [i \in 0..(Len(leaves) - 1) |-> ConstructProof(tree, i)] IN
        \A i, j \in DOMAIN proofs :
            \A proof \in {[proofs[i] EXCEPT !.leafIndex = j]} :
                /\ IsProof(proof)
                /\ \A leaf \in Range(leaves) :
                       LET length == Len(proof.path)
                           needed == Len(proofs[j].path)
                       IN  CASE length > needed ->
                                    ReconstructRoot(proof, HashLeaf(leaf)) = Panicked
                             [] length = needed ->
                                    Verify(proof, leaf, Root(tree))
                                        <=> /\ proof.path = proofs[j].path
                                            /\ leaf = leaves[j + 1]
                             [] length < needed ->
                                    Verify(proof, leaf, Root(tree)) => leaf = leaves[i + 1]

(* The block that every validator builds from a proposal is the one that    *)
(* the proposer has committed to, in each layout of the data and in         *)
(* whichever order each of the two walks the HashMap of the deposits        *)
(* (generate_rollup_datas_commitment, SequencerBlockBuilder::try_build).    *)
ProposalsCanBeBuilt ==
    LET deposits == Deposits(proposal)
        built == {BuiltDatas(proposal, deposits, order) : order \in Orders(deposits)}
    IN  \A l \in ValidLayouts :
            \A expanded \in {Expanded(proposal, order, l) : order \in Orders(deposits)} :
                expanded.ok /\ \A datas \in built : CanBuild(expanded, datas)

(* up to two rollup ids that a reader may ask for, in any order *)
Requests == UNION {SetToSeqs(ids) : ids \in {s \in SUBSET RollupIds : Cardinality(s) <= 2}}

(* What the Sequencer hands out passes the checks of whoever gets it: the   *)
(* block itself, the block filtered for up to two rollups in any order, and *)
(* its metadata on Celestia (SequencerBlock::try_from_raw,                  *)
(* FilteredSequencerBlock::try_from_raw, SubmittedMetadata::try_from_raw).  *)
BlocksVerify ==
    \A h \in Heights :
        LET block == GetSequencerBlock(chain[h].stored) IN
        /\ IsSequencerBlock(block)
        /\ IsSubmittedMetadata(SubmittedMetadata(block))
        /\ \A wanted \in Requests :
               IsFilteredSequencerBlock(GetFilteredSequencerBlock(chain[h].stored, wanted))

(* The data of one rollup in one block matches the root of another block    *)
(* only if that block has the same data for the same rollup                 *)
(* (do_rollup_transactions_match_root).                                     *)
DataBoundToRollup ==
    \A g, h \in Heights : \A id \in DOMAIN chain[g].stored.data :
        LET rollup == chain[g].stored.data[id] IN
        DoRollupTransactionsMatchRoot(rollup, chain[h].stored.header.txsRoot) =>
            /\ id \in DOMAIN chain[h].stored.data
            /\ chain[h].stored.data[id].transactions = rollup.transactions

(* Firm is soft: from a Celestia height a conductor gets every block posted *)
(* there once, however often and in whichever payloads it was posted, if it *)
(* is not stale and its commit was obtained, and each is what the Sequencer *)
(* itself sends to the conductor.  A block with data for the rollup is left *)
(* out if the relayer's filter excludes the rollup.  Blocks of another      *)
(* chain take no part in it but are handed on once each, too                *)
(* (verify_metadata, reconstruct_blocks_from_verified_blobs,                *)
(* ExecutableBlock).                                                        *)
FirmIsSoft ==
    \A id \in RollupIds, next \in Heights : \A committed \in SUBSET Heights :
        LET metadata == DecodedMetadata(celestia)
            blocks == ReconstructBlocks(VerifiedMetadata(metadata, next, committed),
                                        DecodedRollupData(celestia, id), id)
            posted == {m \in UNION {Range(p.metadata) : p \in Range(celestia)} :
                           m.header.height \in next..Len(chain) \cap committed}
        IN  /\ IsInjective(Map(LAMBDA b : b.hash, blocks))
            /\ {b.hash : b \in Range(blocks)}
                   = {m.hash : m \in {n \in posted : id \in Included \/ id \notin Range(n.ids)}}
            /\ \A b \in {c \in Range(blocks) : c.hash \in {chain[h].stored.hash : h \in Heights}} :
                   FromReconstructed(b) = FromSequencer(
                       GetFilteredSequencerBlock(chain[b.header.height].stored, <<id>>), id)
=============================================================================
