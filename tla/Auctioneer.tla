------------------------------ MODULE Auctioneer ------------------------------
(***************************************************************************)
(* The auctioneer (crates/astria-auctioneer) and the Sequencer's streams   *)
(* that feed it.  Each proposed block starts an auction and cancels the    *)
(* running one; the rollup's execution of the block opens it for bids, the *)
(* commitment of the block starts its timer, and the winner is submitted   *)
(* when the timer is up.  Every auction has a worker task of its own,      *)
(* which outlives its cancellation.                                        *)
(***************************************************************************)
EXTENDS Naturals, Sequences, FiniteSets, SequencesExt

CONSTANTS Height,              \* of each block that the Sequencer may see
          Fees,                \* of the bids on one rollup block, one of each
          BroadcastCapacity,   \* of the channel of blocks to the rollup
          MaxProposals,        \* processed by the Sequencer
          Faults,              \* kinds of faults, each happens at most once
          MaxFaults,           \* in one behaviour
          NoBlock, NoBid, NoNonce

ASSUME AuctioneerAssumption ==
    /\ BroadcastCapacity \in Nat \ {0}
    /\ NoBlock \notin DOMAIN Height

VARIABLES sequencer,   \* [height, chain, bus, proposals, nonces]
          rollup,      \* [base, executed, bids]
          streams,     \* [status, unseen, queue] of each stream
          auctions,    \* front and worker of every auction so far
          running,     \* the index of running_auction, 0 if there is none
          cached,      \* Factory::last_successful_nonce
          up,
          faults

vars == <<sequencer, rollup, streams, auctions, running, cached, up, faults>>

Blocks == DOMAIN Height
SequencerStreams == {"proposed", "commitments"}
RollupStreams == {"executed", "bids"}
Streams == SequencerStreams \cup RollupStreams

Fault(kind) ==
    /\ kind \in Faults \ faults /\ Cardinality(faults) < MaxFaults
    /\ faults' = faults \cup {kind}

-----------------------------------------------------------------------------
(* The Sequencer: its event bus, a watch channel that keeps the last event, *)
(* and one task per client stream.  A subscriber that is slow misses all    *)
(* events but the last.                                                     *)

Publish(s) ==
    streams' = [streams EXCEPT ![s].unseen = streams[s].status = "running"]

(* a block may be proposed again in a later round *)
ProcessProposal(b) ==
    /\ sequencer.proposals < MaxProposals
    /\ Height[b] = sequencer.height + 1
    /\ sequencer' = [sequencer EXCEPT !.proposals = @ + 1, !.bus["proposed"] = b]
    /\ Publish("proposed")
    /\ UNCHANGED <<rollup, auctions, running, cached, up, faults>>

(* a node that has fallen behind finalizes blocks that it has not processed *)
FinalizeBlock(b) ==
    /\ Height[b] = sequencer.height + 1
    /\ sequencer' = [sequencer EXCEPT !.height = @ + 1, !.chain = @ \cup {b},
                                      !.bus["commitments"] = b]
    /\ Publish("commitments")
    /\ UNCHANGED <<rollup, auctions, running, cached, up, faults>>

(* optimistic_stream and block_commitment_stream *)
ForwardEvent(s) ==
    /\ streams[s].unseen
    /\ streams' = [streams EXCEPT ![s].unseen = FALSE,
                                  ![s].queue = Append(@, sequencer.bus[s])]
    /\ UNCHANGED <<sequencer, rollup, auctions, running, cached, up, faults>>

PendingNonce == CHOOSE n \in 0..Cardinality(sequencer.nonces) :
                    n \notin sequencer.nonces /\ 0..(n - 1) \subseteq sequencer.nonces

-----------------------------------------------------------------------------
(* The rollup: it executes the blocks it is sent, on the head it has at the *)
(* time, and sends bids on what it has executed.                            *)

ExecuteOptimisticBlock ==
    /\ streams["executed"].status = "running" /\ rollup.base # << >>
    /\ LET block == [base |-> Head(rollup.base), version |-> Cardinality(rollup.executed)]
       IN  /\ rollup' = [rollup EXCEPT !.base = Tail(@), !.executed = @ \cup {block}]
           /\ streams' = [streams EXCEPT !["executed"].queue = Append(@, block)]
    /\ UNCHANGED <<sequencer, auctions, running, cached, up, faults>>

SendBid(bid) ==
    /\ streams["bids"].status = "running" /\ bid \notin rollup.bids
    /\ rollup' = [rollup EXCEPT !.bids = @ \cup {bid}]
    /\ streams' = [streams EXCEPT !["bids"].queue = Append(@, bid)]
    /\ UNCHANGED <<sequencer, auctions, running, cached, up, faults>>

-----------------------------------------------------------------------------
(* Restarting streams.  A stream that has ended calls its opener, but the   *)
(* future that it returns is first polled when something else wakes the     *)
(* auctioneer's task: until then the stream is "unpolled".                  *)

Opening == [status |-> "opening", unseen |-> FALSE, queue |-> << >>]

Polled(str) ==
    [s \in Streams |-> IF str[s].status = "unpolled" THEN Opening ELSE str[s]]

Open(s) ==
    /\ up /\ streams[s].status = "opening"
    /\ streams' = [Polled(streams) EXCEPT ![s] = [Opening EXCEPT !.status = "running"]]
    /\ UNCHANGED <<sequencer, rollup, auctions, running, cached, up, faults>>

(* the error is handed out as an item; the stream is over after it *)
OpenFails(s) ==
    /\ up /\ streams[s].status = "opening" /\ Fault("open")
    /\ streams' = [Polled(streams) EXCEPT ![s].status = "closed"]
    /\ UNCHANGED <<sequencer, rollup, auctions, running, cached, up>>

(* one or both streams of a peer end, seen in one poll of the event loop *)
StreamsEnd(ended) ==
    /\ up /\ Fault("stream")
    /\ \A s \in ended : streams[s].status = "running"
    /\ streams' = [s \in Streams |-> IF s \in ended
                                     THEN [Opening EXCEPT !.status = "unpolled"]
                                     ELSE Polled(streams)[s]]
    /\ rollup' = IF "executed" \in ended THEN [rollup EXCEPT !.base = << >>] ELSE rollup
    /\ UNCHANGED <<sequencer, auctions, running, cached, up>>

(* the next item of a stream *)
Item(s) == Head(streams[s].queue)

(* an item is taken, and all other streams are polled after it *)
Receive(s) ==
    /\ up /\ streams[s].queue # << >>
    /\ streams' = Polled([streams EXCEPT ![s].queue = Tail(@)])
    /\ UNCHANGED <<sequencer, up, faults>>

-----------------------------------------------------------------------------
(* The auctioneer's event loop *)

(* mutant: a block that is proposed again keeps its bids and its timer *)
StartNewTakesOver(b) ==
    IF running # 0 /\ auctions[running].block = b THEN auctions[running]
    ELSE [block |-> b, rollupBlock |-> NoBlock, phase |-> "loop", cancelled |-> FALSE,
          startBids |-> "unset", startTimer |-> "unset", bids |-> << >>,
          highest |-> NoBid, cachedNonce |-> cached, fetch |-> NoNonce,
          nonce |-> NoNonce, tx |-> "none", answered |-> FALSE]

StartNew(b) ==
    [block |-> b, rollupBlock |-> NoBlock, phase |-> "loop", cancelled |-> FALSE,
     startBids |-> "unset", startTimer |-> "unset", bids |-> << >>,
     highest |-> NoBid, cachedNonce |-> cached, fetch |-> NoNonce, nonce |-> NoNonce,
     tx |-> "none", answered |-> FALSE]

LastOf(seq, n) == SubSeq(seq, IF Len(seq) > n THEN Len(seq) - n + 1 ELSE 1, Len(seq))

StartAuction(b) ==
    /\ auctions' = Append([i \in DOMAIN auctions |->
                               IF i = running THEN [auctions[i] EXCEPT !.cancelled = TRUE]
                                              ELSE auctions[i]],
                          StartNew(b))
    /\ running' = Len(auctions) + 1
    /\ rollup' = IF streams["executed"].status = "closed" THEN rollup
                 ELSE [rollup EXCEPT !.base = LastOf(Append(@, b), BroadcastCapacity)]
    /\ UNCHANGED cached

HandleProposedBlock == Receive("proposed") /\ StartAuction(Item("proposed"))

(* the worker keeps its ends of the channels until it returns *)
Listening(i) == i # 0 /\ auctions[i].phase \in {"loop", "submit"}

(* mutant: a commitment of another block starts the timer *)
StartTimerForAnyBlock(b) ==
    /\ auctions' = IF Listening(running) /\ auctions[running].startTimer = "unset"
                   THEN [auctions EXCEPT ![running].startTimer = "sent"]
                   ELSE auctions
    /\ UNCHANGED <<rollup, running, cached>>

StartTimer(b) ==
    /\ auctions' = IF /\ Listening(running) /\ auctions[running].block = b
                      /\ auctions[running].startTimer = "unset"
                   THEN [auctions EXCEPT ![running].startTimer = "sent"]
                   ELSE auctions
    /\ UNCHANGED <<rollup, running, cached>>

HandleBlockCommitment == Receive("commitments") /\ StartTimer(Item("commitments"))

StartBids(block) ==
    /\ auctions' = IF /\ Listening(running) /\ auctions[running].block = block.base
                      /\ auctions[running].startBids = "unset"
                   THEN [auctions EXCEPT ![running].startBids = "sent",
                                         ![running].rollupBlock = block]
                   ELSE auctions
    /\ UNCHANGED <<rollup, running, cached>>

HandleExecutedBlock == Receive("executed") /\ StartBids(Item("executed"))

DoesBidMatchAuction(bid, auction) ==
    auction.block = bid.parent.base /\ auction.rollupBlock = bid.parent

ForwardBid(bid) ==
    /\ auctions' = IF Listening(running) /\ DoesBidMatchAuction(bid, auctions[running])
                   THEN [auctions EXCEPT ![running].bids = Append(@, bid)]
                   ELSE auctions
    /\ UNCHANGED <<rollup, running, cached>>

HandleBids == Receive("bids") /\ ForwardBid(Item("bids"))

(* a response of the Sequencer counts as success, whatever its code *)
HandleCompletedAuction ==
    /\ up /\ running # 0 /\ auctions[running].phase = "done"
    /\ cached' = IF auctions[running].answered THEN auctions[running].nonce ELSE cached
    /\ auctions' = [auctions EXCEPT ![running].phase = "gone"]
    /\ running' = 0
    /\ streams' = Polled(streams)
    /\ UNCHANGED <<sequencer, rollup, up, faults>>

HandleCancelledAuction(i) ==
    /\ up /\ i # running /\ auctions[i].phase = "done"
    /\ auctions' = [auctions EXCEPT ![i].phase = "gone"]
    /\ streams' = Polled(streams)
    /\ UNCHANGED <<sequencer, rollup, running, cached, up, faults>>

(* The running auction is aborted; the cancelled ones stop with the process.*)
ShutDown ==
    /\ up' = FALSE
    /\ auctions' = [i \in DOMAIN auctions |-> [auctions[i] EXCEPT !.phase = "gone"]]
    /\ running' = 0
    /\ UNCHANGED <<sequencer, rollup, streams, cached>>

ShutdownSignal == up /\ Fault("stop") /\ ShutDown

(* the bid stream is the only one whose end does not stop the auctioneer *)
StreamClosed(s) ==
    /\ up /\ streams[s].status = "closed" /\ s # "bids"
    /\ ShutDown
    /\ UNCHANGED faults

Restart ==
    /\ ~up
    /\ up' = TRUE
    /\ streams' = [s \in Streams |-> Opening]
    /\ rollup' = [rollup EXCEPT !.base = << >>]
    /\ cached' = NoNonce
    /\ UNCHANGED <<sequencer, auctions, running, faults>>

-----------------------------------------------------------------------------
(* The worker of auction i: run_auction_loop polls timer, start_bids,       *)
(* start_timer and the bids in this order.                                  *)

InLoop(i) == auctions[i].phase = "loop"

Worker(i, state) ==
    /\ auctions' = [auctions EXCEPT ![i] = state]
    /\ UNCHANGED <<sequencer, rollup, streams, running, cached, up, faults>>

OpenForBids(i) ==
    /\ InLoop(i) /\ auctions[i].startBids = "sent"
    /\ Worker(i, [auctions[i] EXCEPT !.startBids = "taken"])

TakeStartTimer(i) ==
    /\ InLoop(i) /\ auctions[i].startBids # "sent" /\ auctions[i].startTimer = "sent"
    /\ Worker(i, [auctions[i] EXCEPT !.startTimer = "taken"])

(* FirstPrice::bid *)
Higher(highest, bid) ==
    IF highest = NoBid \/ bid.fee > highest.fee THEN bid ELSE highest

ReceiveBid(i) ==
    LET a == auctions[i] IN
    /\ InLoop(i) /\ a.startBids = "taken" /\ a.startTimer # "sent" /\ a.bids # << >>
    /\ Worker(i, [a EXCEPT !.bids = Tail(@),
                           !.highest = Higher(@, Head(a.bids))])

(* get_pending_nonce, in a task that is aborted with the worker's loop *)
FetchNonce(i) ==
    /\ InLoop(i) /\ auctions[i].startTimer = "taken" /\ auctions[i].fetch = NoNonce
    /\ Worker(i, [auctions[i] EXCEPT !.fetch = PendingNonce])

NonceToUse(a) ==
    IF a.fetch # NoNonce THEN a.fetch
    ELSE IF a.cachedNonce # NoNonce THEN a.cachedNonce + 1 ELSE NoNonce

(* mutant: a winner waits for the nonce *)
TimerUpAwaitsNonce(i) ==
    LET a == auctions[i] IN
    /\ InLoop(i) /\ a.startTimer = "taken" /\ (a.highest = NoBid \/ a.fetch # NoNonce)
    /\ Worker(i, IF a.highest = NoBid
                 THEN [a EXCEPT !.phase = "done"]
                 ELSE [a EXCEPT !.phase = "submit", !.nonce = a.fetch, !.tx = "sent"])

(* the timer is up: the winner is signed and submitted, if there is one and *)
(* a nonce for it                                                           *)
TimerUp(i) ==
    LET a == auctions[i]
        nonce == NonceToUse(a)
    IN  /\ InLoop(i) /\ a.startTimer = "taken"
        /\ Worker(i, IF a.highest = NoBid \/ nonce = NoNonce
                     THEN [a EXCEPT !.phase = "done"]
                     ELSE [a EXCEPT !.phase = "submit", !.nonce = nonce, !.tx = "sent"])

(* run_until_cancelled: only the loop is cut short *)
Cancelled(i) ==
    /\ InLoop(i) /\ auctions[i].cancelled
    /\ Worker(i, [auctions[i] EXCEPT !.phase = "done"])

(* the Sequencer checks the transaction, perhaps after the worker gave up, *)
(* and may reject it for other reasons than its nonce                      *)
CheckTx(i, verdict) ==
    LET a == auctions[i] IN
    /\ a.tx = "sent"
    /\ verdict = "accepted" => a.nonce \notin sequencer.nonces
    /\ auctions' = [auctions EXCEPT ![i].tx = verdict]
    /\ sequencer' = IF verdict = "accepted"
                    THEN [sequencer EXCEPT !.nonces = @ \cup {a.nonce}] ELSE sequencer
    /\ UNCHANGED <<rollup, streams, running, cached, up, faults>>

Answered(i) ==
    /\ auctions[i].phase = "submit" /\ auctions[i].tx # "sent"
    /\ Worker(i, [auctions[i] EXCEPT !.phase = "done", !.answered = TRUE])

(* SubmissionElapsed or SubmissionFailed *)
GiveUp(i) ==
    /\ auctions[i].phase = "submit"
    /\ Worker(i, [auctions[i] EXCEPT !.phase = "done"])

-----------------------------------------------------------------------------
Init ==
    /\ sequencer = [height |-> 0, chain |-> {}, proposals |-> 0, nonces |-> {},
                    bus |-> [s \in SequencerStreams |-> NoBlock]]
    /\ rollup = [base |-> << >>, executed |-> {}, bids |-> {}]
    /\ streams = [s \in Streams |-> Opening]
    /\ auctions = << >>
    /\ running = 0
    /\ cached = NoNonce
    /\ up = TRUE
    /\ faults = {}

Environment ==
    \/ \E b \in Blocks : ProcessProposal(b) \/ FinalizeBlock(b)
    \/ ExecuteOptimisticBlock
    \/ \E bid \in [parent : rollup.executed, fee : Fees] : SendBid(bid)
    \/ \E s \in Streams : OpenFails(s)
    \/ \E ended \in (SUBSET SequencerStreams \cup SUBSET RollupStreams) \ {{}} :
           StreamsEnd(ended)
    \/ \E i \in DOMAIN auctions : FetchNonce(i)
    \/ \E i \in DOMAIN auctions, verdict \in {"accepted", "rejected"} : CheckTx(i, verdict)
    \/ ShutdownSignal \/ Restart

EventLoop ==
    \/ HandleProposedBlock \/ HandleBlockCommitment \/ HandleExecutedBlock
    \/ HandleBids \/ HandleCompletedAuction
    \/ \E i \in DOMAIN auctions : HandleCancelledAuction(i)
    \/ \E s \in Streams : StreamClosed(s)

Work(i) == OpenForBids(i) \/ TakeStartTimer(i) \/ ReceiveBid(i) \/ Cancelled(i)

Next ==
    \/ Environment \/ EventLoop
    \/ \E s \in SequencerStreams : ForwardEvent(s)
    \/ \E s \in Streams : Open(s)
    \/ \E i \in DOMAIN auctions : Work(i) \/ TimerUp(i) \/ Answered(i) \/ GiveUp(i)

Spec == Init /\ [][Next]_vars

(* The task of every worker is scheduled and its timers expire.  Nobody     *)
(* else has to act, neither the Sequencer nor the event loop.               *)
FairSpec ==
    Spec /\ \A i \in 1..MaxProposals :
        WF_vars(i \in DOMAIN auctions /\ (Work(i) \/ TimerUp(i) \/ GiveUp(i)))

-----------------------------------------------------------------------------
(* Whoever wins has bid on the rollup block that was built from the block   *)
(* of the auction, and the Sequencer has committed that block, although     *)
(* proposals, commitments, executed blocks and bids come in four streams    *)
(* that lose items and are in no order (start_timer, start_bids,            *)
(* does_bid_match_auction).                                                 *)
WinnerExtendsCommittedBlock ==
    \A i \in DOMAIN auctions : auctions[i].tx # "none" =>
        LET parent == auctions[i].highest.parent IN
        /\ auctions[i].block \in sequencer.chain
        /\ parent \in rollup.executed /\ parent.base = auctions[i].block

(* The top of the block that follows a Sequencer block is sold once, though *)
(* the block may be proposed in several rounds and the streams or the       *)
(* process start again in between (start_timer, EventBusSubscription).      *)
SoldOnce ==
    \A i, j \in DOMAIN auctions :
        auctions[i].tx # "none" /\ auctions[j].tx # "none"
            /\ auctions[i].block = auctions[j].block => i = j

(* An auction whose timer was started comes to its end even if the          *)
(* Sequencer never answers, neither the request for a nonce nor the         *)
(* submission, and whether or not it is cancelled (Worker::run).            *)
TimedAuctionEnds ==
    \A i \in 1..MaxProposals :
        (i \in DOMAIN auctions /\ auctions[i].startTimer # "unset")
            ~> (i \in DOMAIN auctions /\ auctions[i].phase \in {"done", "gone"})
=============================================================================
