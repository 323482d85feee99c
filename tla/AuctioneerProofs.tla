-------------------------- MODULE AuctioneerProofs --------------------------
(***************************************************************************)
(* Proofs about Auctioneer for any blocks, bids, proposals and faults: a   *)
(* winner has bid on the committed block, and a block is sold once.        *)
(***************************************************************************)
EXTENDS Auctioneer, SequenceTheorems, FiniteSetTheorems, WellFoundedInduction,
        TLAPS

-----------------------------------------------------------------------------
(* The inductive invariant *)

RollupBlock == [base : Blocks, version : Nat]
Bid == [parent : RollupBlock, fee : Fees]
Nonces == Nat \cup {NoNonce}

Auction ==
    [block : Blocks, rollupBlock : RollupBlock \cup {NoBlock},
     phase : {"loop", "submit", "done", "gone"}, cancelled : BOOLEAN,
     startBids : {"unset", "sent", "taken"}, startTimer : {"unset", "sent", "taken"},
     bids : Seq(Bid), highest : Bid \cup {NoBid},
     cachedNonce : Nonces, fetch : Nonces, nonce : Nonces,
     tx : {"none", "sent", "accepted", "rejected"}, answered : BOOLEAN]

Stream == [status : {"unpolled", "opening", "running", "closed"}, unseen : BOOLEAN,
           queue : Seq(Blocks \cup RollupBlock \cup Bid)]

SequencerState == [height : Nat, chain : SUBSET Blocks, proposals : Nat, nonces : SUBSET Nat,
                   bus : [SequencerStreams -> Blocks \cup {NoBlock}]]
RollupState == [base : Seq(Blocks), executed : SUBSET RollupBlock, bids : SUBSET Bid]

TypeOK ==
    /\ sequencer \in SequencerState /\ rollup \in RollupState
    /\ IsFiniteSet(sequencer.nonces) /\ IsFiniteSet(rollup.executed)
    /\ streams \in [Streams -> Stream]
    /\ auctions \in Seq(Auction) /\ running \in 0..Len(auctions)
    /\ cached \in Nonces

(* blocks are committed in the order of their heights, each once *)
ChainInv == \A b \in sequencer.chain : Height[b] \in Nat /\ Height[b] <= sequencer.height

BidsInv == \A bid \in rollup.bids : bid.parent \in rollup.executed

(* what a stream carries has happened *)
Happened(s) ==
    CASE s = "proposed" -> Blocks
      [] s = "commitments" -> sequencer.chain
      [] s = "executed" -> rollup.executed
      [] s = "bids" -> rollup.bids

StreamInv ==
    \A s \in Streams :
      /\ streams[s].queue \in Seq(Happened(s))
      /\ streams[s].unseen => s \in SequencerStreams /\ sequencer.bus[s] \in Happened(s)

(* a bid on what the rollup made of block b *)
Extends(bid, b, executed) == bid.parent \in executed /\ bid.parent.base = b

(* an auction, given the committed and the executed blocks *)
Sound(a, chain, executed) ==
    /\ a.startTimer # "unset" => a.block \in chain
    /\ \A k \in 1..Len(a.bids) : Extends(a.bids[k], a.block, executed)
    /\ a.highest # NoBid => Extends(a.highest, a.block, executed)
    /\ a.tx # "none" => /\ a.phase # "loop" /\ a.startTimer # "unset"
                        /\ a.highest # NoBid /\ a.nonce \in Nat

AuctionsInv ==
    \A i \in 1..Len(auctions) : Sound(auctions[i], sequencer.chain, rollup.executed)

(* The commitment of a block exists once: as an event that the stream has  *)
(* not seen, in the stream's queue, or as the timer of one auction.        *)
Unseen == streams["commitments"].unseen
LastCommitment == sequencer.bus["commitments"]
Commitments == streams["commitments"].queue
Timed(i) == auctions[i].startTimer # "unset"

CommitmentInv ==
    /\ \A k, l \in 1..Len(Commitments) : Commitments[k] = Commitments[l] => k = l
    /\ Unseen => \A k \in 1..Len(Commitments) : Commitments[k] # LastCommitment
    /\ \A i \in 1..Len(auctions) : Timed(i) =>
         /\ \A k \in 1..Len(Commitments) : Commitments[k] # auctions[i].block
         /\ Unseen => LastCommitment # auctions[i].block
    /\ \A i, j \in 1..Len(auctions) :
         Timed(i) /\ Timed(j) /\ auctions[i].block = auctions[j].block => i = j

IInv ==
    /\ TypeOK /\ ChainInv /\ BidsInv /\ StreamInv /\ AuctionsInv /\ CommitmentInv

-----------------------------------------------------------------------------
(* Lemmas about nonces and streams *)

(* A nonempty set of natural numbers has a least element.                  *)
LEMMA LeastNatural ==
    ASSUME NEW T \in SUBSET Nat, T # {}
    PROVE  \E x \in T : \A y \in T : x <= y
<1>1. ASSUME NEW R, IsWellFoundedOn(R, Nat),
             \A x, y \in Nat : <<y, x>> \in R <=> y < x
      PROVE  \E x \in T : \A y \in T : x <= y
  <2>1. PICK x \in T : \A y \in T : ~ (<<y, x>> \in R)
    BY <1>1, WFMin
  <2>2. \A y, z \in Nat : ~ (<<y, z>> \in R) => ~ (y < z)
    BY <1>1, Zenon
  <2>3. \A y \in T : ~ (y < x)
    BY <2>1, <2>2, Zenon
  <2> QED BY <2>3, Z3
<1>2. IsWellFoundedOn(OpToRel(<, Nat), Nat)
  BY NatLessThanWellFounded
<1>3. \A x, y \in Nat : <<y, x>> \in OpToRel(<, Nat) <=> y < x
  BY DEF OpToRel
<1> QED BY <1>1, <1>2, <1>3, Zenon

(* The Sequencer always has a pending nonce to report: the least one that  *)
(* is not used.                                                            *)
LEMMA PendingNonceType ==
    ASSUME TypeOK
    PROVE  PendingNonce \in Nat /\ PendingNonce \notin sequencer.nonces
<1> DEFINE U == sequencer.nonces
           N == Cardinality(U)
           T == {n \in Nat : n \notin U}
<1>1. U \in SUBSET Nat /\ IsFiniteSet(U) /\ N \in Nat
  BY FS_CardinalityType DEF TypeOK, SequencerState, RollupState
<1> HIDE DEF U
<1>2. \A n \in Nat : 0..(n - 1) \subseteq U => n <= N
  <2> SUFFICES ASSUME NEW n \in Nat, 0..(n - 1) \subseteq U PROVE n <= N
    OBVIOUS
  <2>1. Cardinality(0..(n - 1)) = n
    <3>1. n - 1 \in Int
      OBVIOUS
    <3>2. Cardinality(0..(n - 1)) = IF 0 > n - 1 THEN 0 ELSE (n - 1) - 0 + 1
      BY <3>1, FS_Interval
    <3> QED BY <3>2
  <2>2. Cardinality(0..(n - 1)) <= N
    BY <1>1, FS_Subset
  <2> QED BY <2>1, <2>2
<1>3. T # {}
  <2>1. ~ (N + 1 <= N)
    BY <1>1
  <2>2. N + 1 \in Nat
    BY <1>1
  <2>3. ~ (0..((N + 1) - 1) \subseteq U)
    BY <1>2, <2>1, <2>2
  <2>4. PICK n \in 0..((N + 1) - 1) : n \notin U
    BY <2>3
  <2> QED BY <1>1, <2>4
<1>4. PICK n \in T : \A m \in T : n <= m
  BY <1>3, LeastNatural
<1>5. 0..(n - 1) \subseteq U
  BY <1>4
<1>6. n \in 0..N /\ n \notin U
  BY <1>1, <1>2, <1>4, <1>5
<1>7. PendingNonce \in 0..N /\ PendingNonce \notin U
  BY <1>5, <1>6 DEF PendingNonce, U
<1> QED BY <1>1, <1>7 DEF U

(* The four streams are different ones.                                    *)
LEMMA StreamNames ==
    /\ Streams = {"proposed", "commitments", "executed", "bids"}
    /\ SequencerStreams = {"proposed", "commitments"}
    /\ Happened("proposed") = Blocks
    /\ Happened("commitments") = sequencer.chain
    /\ Happened("executed") = rollup.executed
    /\ Happened("bids") = rollup.bids
BY DEF Streams, SequencerStreams, RollupStreams, Happened

-----------------------------------------------------------------------------
(* What the steps have in common *)

(* a queue that has lost its head, or all that it held *)
Suffix(q, r) ==
    \E d \in {0, 1} : \A k \in 1..Len(r) : k + d \in 1..Len(q) /\ r[k] = q[k + d]

(* no timer is started, and no auction changes its block *)
TimersKept ==
    \A i \in 1..Len(auctions') : auctions'[i].startTimer # "unset" =>
        /\ i \in 1..Len(auctions)
        /\ auctions[i].startTimer # "unset" /\ auctions'[i].block = auctions[i].block

(* A step that brings no commitment, neither to the queue nor to a timer,  *)
(* keeps the commitments apart.                                            *)
LEMMA CommitmentsKept ==
    ASSUME TypeOK, CommitmentInv, TimersKept,
           streams'["commitments"].queue \in Seq(Blocks \cup RollupBlock \cup Bid),
           Suffix(streams["commitments"].queue, streams'["commitments"].queue),
           streams'["commitments"].unseen =>
               /\ streams["commitments"].unseen
               /\ sequencer'.bus["commitments"] = sequencer.bus["commitments"]
    PROVE  CommitmentInv'
<1> DEFINE q == streams["commitments"].queue
           r == streams'["commitments"].queue
           b == sequencer.bus["commitments"]
           c == sequencer'.bus["commitments"]
           u == streams["commitments"].unseen
           v == streams'["commitments"].unseen
<1>0. q \in Seq(Blocks \cup RollupBlock \cup Bid) /\ Len(q) \in Nat /\ Len(r) \in Nat
  BY DEF TypeOK, SequencerState, RollupState, Stream, Streams, SequencerStreams
<1>1. PICK d \in {0, 1} : \A k \in 1..Len(r) : k + d \in 1..Len(q) /\ r[k] = q[k + d]
  BY DEF Suffix
<1>2. v => u /\ c = b
  OBVIOUS
<1>3. /\ \A k, l \in 1..Len(q) : q[k] = q[l] => k = l
      /\ u => \A k \in 1..Len(q) : q[k] # b
      /\ \A i \in 1..Len(auctions) : auctions[i].startTimer # "unset" =>
           /\ \A k \in 1..Len(q) : q[k] # auctions[i].block
           /\ u => b # auctions[i].block
      /\ \A i, j \in 1..Len(auctions) :
           (/\ auctions[i].startTimer # "unset" /\ auctions[j].startTimer # "unset"
            /\ auctions[i].block = auctions[j].block) => i = j
  BY DEF CommitmentInv, Commitments, Unseen, LastCommitment, Timed
<1> HIDE DEF q, r, b, c, u, v
<1>4. \A k, l \in 1..Len(r) : r[k] = r[l] => k = l
  <2> SUFFICES ASSUME NEW k \in 1..Len(r), NEW l \in 1..Len(r), r[k] = r[l] PROVE k = l
    OBVIOUS
  <2>1. k + d \in 1..Len(q) /\ l + d \in 1..Len(q) /\ q[k + d] = q[l + d]
    BY <1>1
  <2>2. k + d = l + d
    BY <1>3, <2>1
  <2> QED BY <2>2, <1>0
<1>5. v => \A k \in 1..Len(r) : r[k] # c
  BY <1>0, <1>1, <1>2, <1>3
<1>6. \A i \in 1..Len(auctions') : auctions'[i].startTimer # "unset" =>
           /\ \A k \in 1..Len(r) : r[k] # auctions'[i].block
           /\ v => c # auctions'[i].block
  <2> SUFFICES ASSUME NEW i \in 1..Len(auctions'), auctions'[i].startTimer # "unset"
               PROVE  /\ \A k \in 1..Len(r) : r[k] # auctions'[i].block
                      /\ v => c # auctions'[i].block
    OBVIOUS
  <2>1. /\ i \in 1..Len(auctions) /\ auctions[i].startTimer # "unset"
        /\ auctions'[i].block = auctions[i].block
    BY DEF TimersKept
  <2> QED BY <1>0, <1>1, <1>2, <1>3, <2>1
<1>7. \A i, j \in 1..Len(auctions') :
           (/\ auctions'[i].startTimer # "unset" /\ auctions'[j].startTimer # "unset"
            /\ auctions'[i].block = auctions'[j].block) => i = j
  BY <1>3 DEF TimersKept
<1> QED BY <1>4, <1>5, <1>6, <1>7
        DEF CommitmentInv, Commitments, Unseen, LastCommitment, Timed, r, c, v

(* What has been committed and executed stays so, hence an auction that is *)
(* left alone stays sound.                                                 *)
LEMMA SoundMonotone ==
    ASSUME NEW a, NEW c, NEW d, NEW e, NEW f, Sound(a, c, e), c \subseteq d, e \subseteq f
    PROVE  Sound(a, d, f)
BY DEF Sound, Extends

(* The same of all of them.                                                *)
LEMMA AuctionsKept ==
    ASSUME AuctionsInv, auctions' = auctions,
           sequencer.chain \subseteq sequencer'.chain,
           rollup.executed \subseteq rollup'.executed
    PROVE  AuctionsInv' /\ TimersKept
BY SoundMonotone DEF AuctionsInv, TimersKept

(* A stream whose queue is a suffix of what it was carries what happened.  *)
LEMMA SuffixType ==
    ASSUME NEW S, NEW T, NEW q \in Seq(S), NEW r \in Seq(T), Suffix(q, r)
    PROVE  r \in Seq(S)
<1>1. Len(q) \in Nat /\ Len(r) \in Nat
  OBVIOUS
<1>2. \A k \in 1..Len(r) : r[k] \in S
  BY <1>1 DEF Suffix
<1>3. r = [k \in 1..Len(r) |-> r[k]]
  OBVIOUS
<1> QED BY <1>1, <1>2, <1>3, SMTT(20)

(* The ways in which a queue becomes a suffix of itself.                   *)
LEMMA SuffixCases ==
    ASSUME NEW S, NEW q \in Seq(S)
    PROVE  /\ Suffix(q, q) /\ Suffix(q, << >>)
           /\ q # << >> => Suffix(q, Tail(q)) /\ Tail(q) \in Seq(S) /\ Head(q) \in S
<1>1. Len(q) \in Nat
  OBVIOUS
<1>2. Suffix(q, q)
  BY <1>1 DEF Suffix
<1>3. Suffix(q, << >>)
  BY <1>1 DEF Suffix
<1>4. ASSUME q # << >> PROVE Suffix(q, Tail(q)) /\ Tail(q) \in Seq(S) /\ Head(q) \in S
  <2>1. /\ Len(Tail(q)) = Len(q) - 1 /\ \A k \in 1..Len(Tail(q)) : Tail(q)[k] = q[k + 1]
        /\ Tail(q) \in Seq(S) /\ Head(q) \in S
    BY <1>4, HeadTailProperties
  <2> QED BY <1>1, <2>1 DEF Suffix
<1> QED BY <1>2, <1>3, <1>4

(* streams that bring nothing new *)
Shrinks(old, new) ==
    /\ new \in [Streams -> Stream]
    /\ \A s \in Streams : /\ Suffix(old[s].queue, new[s].queue)
                          /\ new[s].unseen => old[s].unseen

(* Such a step keeps what the streams carry and the commitments apart.     *)
LEMMA ShrinksKeeps ==
    ASSUME TypeOK, StreamInv, CommitmentInv, TimersKept, Shrinks(streams, streams'),
           sequencer'.chain = sequencer.chain, sequencer'.bus = sequencer.bus,
           rollup'.executed = rollup.executed, rollup'.bids = rollup.bids
    PROVE  StreamInv' /\ CommitmentInv'
<1>1. ASSUME NEW s \in Streams
      PROVE  /\ streams'[s].queue \in Seq(Blocks \cup RollupBlock \cup Bid)
             /\ Suffix(streams[s].queue, streams'[s].queue)
             /\ streams'[s].unseen => streams[s].unseen
  BY DEF Shrinks, Stream
<1>2. ASSUME NEW s \in Streams PROVE Happened(s)' = Happened(s)
  BY StreamNames DEF Happened
<1>3. StreamInv'
  <2> SUFFICES ASSUME NEW s \in Streams
               PROVE  /\ streams'[s].queue \in Seq(Happened(s)')
                      /\ streams'[s].unseen =>
                           s \in SequencerStreams /\ sequencer'.bus[s] \in Happened(s)'
    BY DEF StreamInv
  <2>1. /\ streams[s].queue \in Seq(Happened(s))
        /\ streams[s].unseen => s \in SequencerStreams /\ sequencer.bus[s] \in Happened(s)
    BY DEF StreamInv
  <2>2. streams'[s].queue \in Seq(Happened(s))
    BY <1>1, <2>1, SuffixType
  <2> QED BY <1>1, <1>2, <2>1, <2>2
<1>4. "commitments" \in Streams
  BY DEF Streams, SequencerStreams
<1>5. CommitmentInv'
  BY <1>1, <1>4, CommitmentsKept
<1> QED BY <1>3, <1>5

(* Streams as they are, and streams that are polled, shrink.               *)
LEMMA PolledShrinks ==
    ASSUME NEW old \in [Streams -> Stream]
    PROVE  /\ Shrinks(old, old)
           /\ \A new : Shrinks(old, new) => Shrinks(old, Polled(new))
           /\ Opening \in Stream /\ [Opening EXCEPT !.status = "running"] \in Stream
           /\ [Opening EXCEPT !.status = "unpolled"] \in Stream
<1>1. ASSUME NEW s \in Streams PROVE Suffix(old[s].queue, old[s].queue) /\ Suffix(old[s].queue, << >>)
  BY SuffixCases DEF Stream
<1>2. Shrinks(old, old)
  BY <1>1 DEF Shrinks
<1>3. << >> \in Seq(Blocks \cup RollupBlock \cup Bid)
  OBVIOUS
<1>4. /\ Opening \in Stream /\ [Opening EXCEPT !.status = "running"] \in Stream
      /\ [Opening EXCEPT !.status = "unpolled"] \in Stream
  BY <1>3 DEF Opening, Stream
<1>5. ASSUME NEW new, Shrinks(old, new) PROVE Shrinks(old, Polled(new))
  <2>1. Polled(new) \in [Streams -> Stream]
    BY <1>4, <1>5 DEF Polled, Shrinks
  <2>2. ASSUME NEW s \in Streams
        PROVE  /\ Suffix(old[s].queue, Polled(new)[s].queue)
               /\ Polled(new)[s].unseen => old[s].unseen
    <3>1. CASE new[s].status = "unpolled"
      <4>1. Polled(new)[s].queue = << >> /\ Polled(new)[s].unseen = FALSE
        BY <3>1 DEF Polled, Opening
      <4> QED BY <4>1, <1>1
    <3>2. CASE new[s].status # "unpolled"
      <4>1. Polled(new)[s] = new[s]
        BY <3>2 DEF Polled
      <4> QED BY <4>1, <1>5 DEF Shrinks
    <3> QED BY <3>1, <3>2
  <2> QED BY <2>1, <2>2 DEF Shrinks
<1> QED BY <1>2, <1>4, <1>5

(* Whatever only moves on in its streams and in the state of its auctions  *)
(* keeps the invariant if the auctions stay sound.                         *)
LEMMA QuietStep ==
    ASSUME IInv, TypeOK', AuctionsInv', TimersKept, Shrinks(streams, streams'),
           sequencer'.chain = sequencer.chain, sequencer'.bus = sequencer.bus,
           sequencer'.height = sequencer.height,
           rollup'.executed = rollup.executed, rollup'.bids = rollup.bids
    PROVE  IInv'
<1>1. StreamInv' /\ CommitmentInv'
  BY ShrinksKeeps DEF IInv
<1>2. ChainInv' /\ BidsInv'
  BY DEF IInv, ChainInv, BidsInv
<1> QED BY <1>1, <1>2 DEF IInv

-----------------------------------------------------------------------------
(* Streams that open and end *)

(* A step of the streams that leaves the auctions alone.                   *)
LEMMA StreamStep ==
    ASSUME IInv, Shrinks(streams, streams'),
           rollup' \in [base : Seq(Blocks), executed : {rollup.executed}, bids : {rollup.bids}],
           UNCHANGED <<sequencer, auctions, running, cached>>
    PROVE  IInv'
<1>1. AuctionsInv' /\ TimersKept
  BY AuctionsKept DEF IInv
<1>2. TypeOK'
  BY DEF IInv, TypeOK, SequencerState, RollupState, Shrinks
<1> QED BY <1>1, <1>2, QuietStep

(* An opened stream begins empty.                                          *)
LEMMA OpenPreserves ==
    ASSUME IInv, NEW s \in Streams, Open(s)
    PROVE  IInv'
<1>0. streams \in [Streams -> Stream]
  BY DEF IInv, TypeOK, SequencerState, RollupState
<1>1. Shrinks(streams, Polled(streams)) /\ [Opening EXCEPT !.status = "running"] \in Stream
  BY <1>0, PolledShrinks
<1>2. \A t \in Streams : Suffix(streams[t].queue, << >>)
  BY <1>0, SuffixCases DEF Stream
<1>3. streams' = [Polled(streams) EXCEPT ![s] = [Opening EXCEPT !.status = "running"]]
  BY DEF Open
<1>4. ([Opening EXCEPT !.status = "running"]).queue = << >>
      /\ ([Opening EXCEPT !.status = "running"]).unseen = FALSE
  BY DEF Opening
<1>5. Shrinks(streams, streams')
  BY <1>1, <1>2, <1>3, <1>4 DEF Shrinks
<1>6. rollup' \in [base : Seq(Blocks), executed : {rollup.executed}, bids : {rollup.bids}]
  BY DEF Open, IInv, TypeOK, SequencerState, RollupState
<1> QED BY <1>5, <1>6, StreamStep DEF Open

(* A stream that fails to open is closed.                                  *)
LEMMA OpenFailsPreserves ==
    ASSUME IInv, NEW s \in Streams, OpenFails(s)
    PROVE  IInv'
<1>0. streams \in [Streams -> Stream]
  BY DEF IInv, TypeOK, SequencerState, RollupState
<1>1. Shrinks(streams, Polled(streams))
  BY <1>0, PolledShrinks
<1>2. streams' = [Polled(streams) EXCEPT ![s].status = "closed"]
  BY DEF OpenFails
<1>3. /\ streams' \in [Streams -> Stream]
      /\ \A t \in Streams : /\ streams'[t].queue = Polled(streams)[t].queue
                            /\ streams'[t].unseen = Polled(streams)[t].unseen
  BY <1>1, <1>2 DEF Shrinks, Stream
<1>4. Shrinks(streams, streams')
  BY <1>1, <1>3 DEF Shrinks
<1>5. rollup' \in [base : Seq(Blocks), executed : {rollup.executed}, bids : {rollup.bids}]
  BY DEF OpenFails, IInv, TypeOK, SequencerState, RollupState
<1> QED BY <1>4, <1>5, StreamStep DEF OpenFails

(* Streams that end lose what they carry.                                  *)
LEMMA StreamsEndPreserves ==
    ASSUME IInv, NEW ended, StreamsEnd(ended)
    PROVE  IInv'
<1> DEFINE closed == [Opening EXCEPT !.status = "unpolled"]
<1>0. streams \in [Streams -> Stream]
  BY DEF IInv, TypeOK, SequencerState, RollupState
<1>1. Shrinks(streams, Polled(streams)) /\ closed \in Stream
  BY <1>0, PolledShrinks
<1>2. \A t \in Streams : Suffix(streams[t].queue, << >>)
  BY <1>0, SuffixCases DEF Stream
<1>3. closed.queue = << >> /\ closed.unseen = FALSE
  BY DEF Opening
<1>4. streams' = [s \in Streams |-> IF s \in ended THEN closed ELSE Polled(streams)[s]]
  BY DEF StreamsEnd
<1>5. Shrinks(streams, streams')
  <2> HIDE DEF closed
  <2> QED BY <1>1, <1>2, <1>3, <1>4 DEF Shrinks
<1>6. rollup' \in [base : Seq(Blocks), executed : {rollup.executed}, bids : {rollup.bids}]
  <2>1. rollup.base \in Seq(Blocks) /\ << >> \in Seq(Blocks)
    BY DEF IInv, TypeOK, SequencerState, RollupState
  <2> QED BY <2>1 DEF StreamsEnd, IInv, TypeOK, SequencerState, RollupState
<1> QED BY <1>5, <1>6, StreamStep DEF StreamsEnd

(* A process that starts again opens all streams.                          *)
LEMMA RestartPreserves ==
    ASSUME IInv, Restart
    PROVE  IInv'
<1>0. streams \in [Streams -> Stream]
  BY DEF IInv, TypeOK, SequencerState, RollupState
<1>1. Opening \in Stream
  BY <1>0, PolledShrinks
<1>2. \A t \in Streams : Suffix(streams[t].queue, << >>)
  BY <1>0, SuffixCases DEF Stream
<1>3. Opening.queue = << >> /\ Opening.unseen = FALSE
  BY DEF Opening
<1>4. Shrinks(streams, streams')
  BY <1>1, <1>2, <1>3 DEF Shrinks, Restart
<1>5. AuctionsInv' /\ TimersKept
  BY AuctionsKept DEF IInv, Restart
<1>6. << >> \in Seq(Blocks)
  OBVIOUS
<1>7. TypeOK'
  BY <1>4, <1>6 DEF IInv, TypeOK, SequencerState, RollupState, Shrinks, Restart, Nonces
<1>8. /\ sequencer' = sequencer
      /\ rollup'.executed = rollup.executed /\ rollup'.bids = rollup.bids
  BY DEF Restart, IInv, TypeOK, SequencerState, RollupState
<1> QED BY <1>4, <1>5, <1>7, <1>8, QuietStep

-----------------------------------------------------------------------------
(* The workers *)

(* What the invariant says of one auction.                                 *)
LEMMA AuctionFacts ==
    ASSUME IInv
    PROVE  /\ auctions \in Seq(Auction) /\ DOMAIN auctions = 1..Len(auctions)
           /\ Len(auctions) \in Nat
           /\ \A i \in DOMAIN auctions :
                 auctions[i] \in Auction /\ Sound(auctions[i], sequencer.chain, rollup.executed)
<1>1. auctions \in Seq(Auction)
  BY DEF IInv, TypeOK, SequencerState, RollupState
<1> QED BY <1>1 DEF IInv, AuctionsInv

(* A replaced auction that is sound and for the same block, and whose      *)
(* timer was not started by the step, keeps the auctions sound.            *)
LEMMA ReplaceAuction ==
    ASSUME IInv, NEW i \in DOMAIN auctions, NEW a \in Auction,
           auctions' = [auctions EXCEPT ![i] = a],
           sequencer'.chain = sequencer.chain, rollup'.executed = rollup.executed,
           Sound(a, sequencer.chain, rollup.executed), a.block = auctions[i].block,
           a.startTimer # "unset" => auctions[i].startTimer # "unset"
    PROVE  /\ AuctionsInv' /\ TimersKept
           /\ auctions' \in Seq(Auction) /\ Len(auctions') = Len(auctions)
<1>1. auctions' \in Seq(Auction) /\ Len(auctions') = Len(auctions)
  BY AuctionFacts
<1>2. \A j \in 1..Len(auctions) : auctions'[j] = IF j = i THEN a ELSE auctions[j]
  BY AuctionFacts
<1>3. AuctionsInv'
  BY <1>1, <1>2 DEF AuctionsInv, IInv
<1>4. TimersKept
  BY <1>1, <1>2 DEF TimersKept
<1> QED BY <1>1, <1>3, <1>4

(* The same for a step of a worker, which changes nothing else.            *)
LEMMA WorkerStep ==
    ASSUME IInv, NEW i \in DOMAIN auctions, NEW a \in Auction, Worker(i, a),
           Sound(a, sequencer.chain, rollup.executed), a.block = auctions[i].block,
           a.startTimer # "unset" => auctions[i].startTimer # "unset"
    PROVE  IInv'
<1>1. /\ AuctionsInv' /\ TimersKept
      /\ auctions' \in Seq(Auction) /\ Len(auctions') = Len(auctions)
  BY ReplaceAuction DEF Worker
<1>2. Shrinks(streams, streams')
  BY PolledShrinks DEF Worker, IInv, TypeOK, SequencerState, RollupState
<1>3. TypeOK'
  BY <1>1 DEF IInv, TypeOK, SequencerState, RollupState, Worker
<1> QED BY <1>1, <1>2, <1>3, QuietStep DEF Worker

(* The worker takes the signals that were sent to it.                      *)
LEMMA SignalsPreserve ==
    ASSUME IInv, NEW i \in DOMAIN auctions, OpenForBids(i) \/ TakeStartTimer(i)
    PROVE  IInv'
<1> DEFINE a == auctions[i]
           b == [a EXCEPT !.startBids = "taken"]
           c == [a EXCEPT !.startTimer = "taken"]
<1>1. a \in Auction /\ Sound(a, sequencer.chain, rollup.executed)
  BY AuctionFacts
<1>2. CASE OpenForBids(i)
  <2>1. b \in Auction
    BY <1>1 DEF Auction
  <2>2. Sound(b, sequencer.chain, rollup.executed) /\ b.block = a.block
        /\ b.startTimer = a.startTimer
    BY <1>1 DEF Sound, Auction
  <2>3. Worker(i, b)
    BY <1>2 DEF OpenForBids
  <2> HIDE DEF b
  <2> QED BY <2>1, <2>2, <2>3, WorkerStep
<1>3. CASE TakeStartTimer(i)
  <2>0. a.startTimer = "sent"
    BY <1>3 DEF TakeStartTimer
  <2>1. c \in Auction
    BY <1>1 DEF Auction
  <2>2. Sound(c, sequencer.chain, rollup.executed) /\ c.block = a.block
    BY <1>1, <2>0 DEF Sound, Auction
  <2>3. Worker(i, c)
    BY <1>3 DEF TakeStartTimer
  <2> HIDE DEF c
  <2> QED BY <2>0, <2>1, <2>2, <2>3, WorkerStep
<1> QED BY <1>2, <1>3

(* The highest bid is one of those that were forwarded.                    *)
LEMMA ReceiveBidPreserves ==
    ASSUME IInv, NEW i \in DOMAIN auctions, ReceiveBid(i)
    PROVE  IInv'
<1> DEFINE a == auctions[i]
           h == Higher(a.highest, Head(a.bids))
           b == [a EXCEPT !.bids = Tail(a.bids), !.highest = h]
<1>1. a \in Auction /\ Sound(a, sequencer.chain, rollup.executed)
  BY AuctionFacts
<1>2. a.bids \in Seq(Bid) /\ a.bids # << >> /\ Worker(i, b)
  BY <1>1 DEF ReceiveBid, Auction
<1>3. /\ Head(a.bids) = a.bids[1] /\ 1 \in 1..Len(a.bids)
      /\ Head(a.bids) \in Bid /\ Tail(a.bids) \in Seq(Bid)
      /\ \A k \in 1..Len(Tail(a.bids)) :
            k + 1 \in 1..Len(a.bids) /\ Tail(a.bids)[k] = a.bids[k + 1]
  BY <1>2
<1>4. \A k \in 1..Len(a.bids) : Extends(a.bids[k], a.block, rollup.executed)
  BY <1>1 DEF Sound
<1>5. h \in {a.highest, Head(a.bids)}
  BY DEF Higher
<1>6. /\ h \in Bid \cup {NoBid}
      /\ h # NoBid => Extends(h, a.block, rollup.executed)
      /\ a.highest # NoBid /\ a.highest = h => h # NoBid
  BY <1>1, <1>3, <1>4, <1>5 DEF Sound, Auction
<1>7. a.tx = "none"
  BY <1>1 DEF Sound, ReceiveBid, InLoop
<1> HIDE DEF h
<1>8. b \in Auction
  BY <1>1, <1>3, <1>6 DEF Auction
<1>9. Sound(b, sequencer.chain, rollup.executed) /\ b.block = a.block
      /\ b.startTimer = a.startTimer
  BY <1>1, <1>3, <1>4, <1>6, <1>7 DEF Sound, Auction
<1> HIDE DEF b
<1> QED BY <1>2, <1>8, <1>9, WorkerStep

(* The pending nonce is fetched.                                           *)
LEMMA FetchNoncePreserves ==
    ASSUME IInv, NEW i \in DOMAIN auctions, FetchNonce(i)
    PROVE  IInv'
<1> DEFINE a == auctions[i]
           b == [a EXCEPT !.fetch = PendingNonce]
<1>1. a \in Auction /\ Sound(a, sequencer.chain, rollup.executed)
  BY AuctionFacts
<1>2. PendingNonce \in Nat
  BY PendingNonceType DEF IInv
<1>3. b \in Auction
  BY <1>1, <1>2 DEF Auction, Nonces
<1>4. Sound(b, sequencer.chain, rollup.executed) /\ b.block = a.block
      /\ b.startTimer = a.startTimer
  BY <1>1 DEF Sound, Auction
<1>5. Worker(i, b)
  BY DEF FetchNonce
<1> HIDE DEF b
<1> QED BY <1>3, <1>4, <1>5, WorkerStep

(* The winner is submitted only after the commitment of the block started  *)
(* the timer, and with a nonce.                                            *)
LEMMA TimerUpPreserves ==
    ASSUME IInv, NEW i \in DOMAIN auctions, TimerUp(i)
    PROVE  IInv'
<1> DEFINE a == auctions[i]
           n == NonceToUse(a)
           b == [a EXCEPT !.phase = "done"]
           c == [a EXCEPT !.phase = "submit", !.nonce = n, !.tx = "sent"]
<1>1. a \in Auction /\ Sound(a, sequencer.chain, rollup.executed)
  BY AuctionFacts
<1>2. a.startTimer = "taken"
  BY DEF TimerUp
<1>3. n = NoNonce \/ n \in Nat
  BY <1>1 DEF NonceToUse, Auction, Nonces
<1> HIDE DEF n
<1>4. CASE a.highest = NoBid \/ n = NoNonce
  <2>1. b \in Auction
    BY <1>1 DEF Auction
  <2>2. Sound(b, sequencer.chain, rollup.executed) /\ b.block = a.block
        /\ b.startTimer = a.startTimer
    BY <1>1 DEF Sound, Auction
  <2>3. Worker(i, b)
    BY <1>4 DEF TimerUp, n
  <2> HIDE DEF b
  <2> QED BY <2>1, <2>2, <2>3, WorkerStep
<1>5. CASE a.highest # NoBid /\ n # NoNonce
  <2>1. c \in Auction
    BY <1>1, <1>3, <1>5 DEF Auction, Nonces
  <2>2. Sound(c, sequencer.chain, rollup.executed) /\ c.block = a.block
        /\ c.startTimer = a.startTimer
    BY <1>1, <1>2, <1>3, <1>5 DEF Sound, Auction
  <2>3. Worker(i, c)
    BY <1>5 DEF TimerUp, n
  <2> HIDE DEF c
  <2> QED BY <2>1, <2>2, <2>3, WorkerStep
<1> QED BY <1>4, <1>5

(* A worker that is cancelled, answered or gives up has done.              *)
LEMMA WorkerEndsPreserves ==
    ASSUME IInv, NEW i \in DOMAIN auctions, Cancelled(i) \/ Answered(i) \/ GiveUp(i)
    PROVE  IInv'
<1> DEFINE a == auctions[i]
           b == [a EXCEPT !.phase = "done"]
           c == [a EXCEPT !.phase = "done", !.answered = TRUE]
<1>1. a \in Auction /\ Sound(a, sequencer.chain, rollup.executed)
  BY AuctionFacts
<1>2. b \in Auction /\ c \in Auction
  BY <1>1 DEF Auction
<1>3. /\ Sound(b, sequencer.chain, rollup.executed) /\ b.block = a.block
      /\ b.startTimer = a.startTimer
      /\ Sound(c, sequencer.chain, rollup.executed) /\ c.block = a.block
      /\ c.startTimer = a.startTimer
  BY <1>1 DEF Sound, Auction
<1>4. Worker(i, b) \/ Worker(i, c)
  BY DEF Cancelled, Answered, GiveUp
<1> HIDE DEF b, c
<1> QED BY <1>2, <1>3, <1>4, WorkerStep

(* The Sequencer's verdict, which may come after the worker has ended.     *)
LEMMA CheckTxPreserves ==
    ASSUME IInv, NEW i \in DOMAIN auctions, NEW verdict \in {"accepted", "rejected"},
           CheckTx(i, verdict)
    PROVE  IInv'
<1> DEFINE a == auctions[i]
           b == [a EXCEPT !.tx = verdict]
<1>1. a \in Auction /\ Sound(a, sequencer.chain, rollup.executed) /\ a.tx = "sent"
  BY AuctionFacts DEF CheckTx
<1>2. b \in Auction
  BY <1>1 DEF Auction
<1>3. /\ Sound(b, sequencer.chain, rollup.executed) /\ b.block = a.block
      /\ b.startTimer = a.startTimer
  BY <1>1 DEF Sound, Auction
<1>4. auctions' = [auctions EXCEPT ![i] = b]
  BY DEF CheckTx
<1>5. /\ sequencer'.chain = sequencer.chain /\ sequencer'.bus = sequencer.bus
      /\ sequencer'.height = sequencer.height
      /\ sequencer' \in SequencerState
      /\ sequencer'.nonces \in {sequencer.nonces, sequencer.nonces \cup {a.nonce}}
  <2>1. a.nonce \in Nat
    BY <1>1 DEF Sound
  <2> QED BY <2>1 DEF CheckTx, IInv, TypeOK, SequencerState, RollupState
<1>6. IsFiniteSet(sequencer'.nonces)
  <2>1. IsFiniteSet(sequencer.nonces)
    BY DEF IInv, TypeOK, SequencerState, RollupState
  <2>2. IsFiniteSet(sequencer.nonces \cup {a.nonce})
    BY <2>1, FS_AddElement
  <2> QED BY <1>5, <2>1, <2>2, Zenon
<1>0. UNCHANGED <<rollup, streams, running, cached>>
  BY DEF CheckTx
<1> HIDE DEF b
<1>7. /\ AuctionsInv' /\ TimersKept
      /\ auctions' \in Seq(Auction) /\ Len(auctions') = Len(auctions)
  BY <1>0, <1>2, <1>3, <1>4, <1>5, ReplaceAuction
<1>8. Shrinks(streams, streams')
  BY PolledShrinks DEF CheckTx, IInv, TypeOK, SequencerState, RollupState
<1>9. TypeOK'
  BY <1>0, <1>5, <1>6, <1>7 DEF IInv, TypeOK, SequencerState, RollupState
<1> QED BY <1>0, <1>5, <1>7, <1>8, <1>9, QuietStep

-----------------------------------------------------------------------------
(* The event loop *)

(* A worker that has done is joined.                                       *)
LEMMA JoinedPreserves ==
    ASSUME IInv, HandleCompletedAuction \/ \E i \in DOMAIN auctions : HandleCancelledAuction(i)
    PROVE  IInv'
<1>1. PICK i \in DOMAIN auctions : /\ auctions' = [auctions EXCEPT ![i].phase = "gone"]
                                   /\ running' \in {running, 0}
                                   /\ cached' \in {cached, auctions[i].nonce}
                                   /\ streams' = Polled(streams)
                                   /\ UNCHANGED <<sequencer, rollup>>
  <2>1. running # 0 => running \in DOMAIN auctions
    BY AuctionFacts DEF IInv, TypeOK, SequencerState, RollupState
  <2> QED BY <2>1 DEF HandleCompletedAuction, HandleCancelledAuction
<1> DEFINE a == auctions[i]
           b == [a EXCEPT !.phase = "gone"]
<1>2. a \in Auction /\ Sound(a, sequencer.chain, rollup.executed)
  BY AuctionFacts
<1>3. b \in Auction
  BY <1>2 DEF Auction
<1>4. /\ Sound(b, sequencer.chain, rollup.executed) /\ b.block = a.block
      /\ b.startTimer = a.startTimer
  BY <1>2 DEF Sound, Auction
<1>5. auctions' = [auctions EXCEPT ![i] = b]
  BY <1>1
<1> HIDE DEF b
<1>6. /\ AuctionsInv' /\ TimersKept
      /\ auctions' \in Seq(Auction) /\ Len(auctions') = Len(auctions)
  BY <1>1, <1>3, <1>4, <1>5, ReplaceAuction
<1>7. Shrinks(streams, streams')
  BY <1>1, PolledShrinks DEF IInv, TypeOK, SequencerState, RollupState
<1>8. cached' \in Nonces
  BY <1>1, <1>2 DEF IInv, TypeOK, SequencerState, RollupState, Auction
<1>9. TypeOK'
  BY <1>1, <1>6, <1>7, <1>8 DEF IInv, TypeOK, SequencerState, RollupState, Shrinks
<1> QED BY <1>1, <1>6, <1>7, <1>9, QuietStep

(* The process stops, and with it all workers; their transactions stay.    *)
LEMMA ShutDownPreserves ==
    ASSUME IInv, ShutDown
    PROVE  IInv'
<1> DEFINE gone(i) == [auctions[i] EXCEPT !.phase = "gone"]
<1>1. auctions' = [i \in DOMAIN auctions |-> gone(i)]
  BY DEF ShutDown
<1>2. ASSUME NEW i \in DOMAIN auctions
      PROVE  /\ gone(i) \in Auction
             /\ Sound(gone(i), sequencer.chain, rollup.executed)
             /\ gone(i).block = auctions[i].block
             /\ gone(i).startTimer = auctions[i].startTimer
  <2>1. auctions[i] \in Auction /\ Sound(auctions[i], sequencer.chain, rollup.executed)
    BY AuctionFacts
  <2>2. gone(i) \in Auction
    BY <2>1 DEF Auction
  <2>3. /\ Sound(gone(i), sequencer.chain, rollup.executed)
        /\ gone(i).block = auctions[i].block
        /\ gone(i).startTimer = auctions[i].startTimer
    BY <2>1 DEF Sound, Auction
  <2> QED BY <2>2, <2>3
<1> HIDE DEF gone
<1>3. /\ auctions' \in Seq(Auction) /\ Len(auctions') = Len(auctions)
      /\ \A i \in 1..Len(auctions') : i \in DOMAIN auctions /\ auctions'[i] = gone(i)
  BY <1>1, <1>2, AuctionFacts
<1>4. AuctionsInv'
  BY <1>2, <1>3 DEF AuctionsInv, ShutDown
<1>5. TimersKept
  BY <1>2, <1>3, AuctionFacts DEF TimersKept
<1>6. Shrinks(streams, streams')
  BY PolledShrinks DEF ShutDown, IInv, TypeOK, SequencerState, RollupState
<1>7. TypeOK'
  BY <1>3 DEF IInv, TypeOK, SequencerState, RollupState, ShutDown
<1> QED BY <1>4, <1>5, <1>6, <1>7, QuietStep DEF ShutDown

(* The item that is received has happened, and all streams shrink.         *)
LEMMA ReceiveFacts ==
    ASSUME IInv, NEW s \in Streams, Receive(s)
    PROVE  /\ Shrinks(streams, streams') /\ Item(s) \in Happened(s)
           /\ streams[s].queue \in Seq(Happened(s)) /\ streams[s].queue # << >>
<1> DEFINE next == [streams EXCEPT ![s].queue = Tail(streams[s].queue)]
<1>0. streams \in [Streams -> Stream]
  BY DEF IInv, TypeOK, SequencerState, RollupState
<1>1. streams[s].queue \in Seq(Blocks \cup RollupBlock \cup Bid)
  BY <1>0 DEF Stream
<1>2. streams[s].queue # << >> /\ streams' = Polled(next)
  BY DEF Receive
<1>3. /\ Suffix(streams[s].queue, Tail(streams[s].queue))
      /\ Tail(streams[s].queue) \in Seq(Blocks \cup RollupBlock \cup Bid)
  BY <1>1, <1>2, SuffixCases
<1>4. Shrinks(streams, streams)
  BY <1>0, PolledShrinks
<1>5. next \in [Streams -> Stream]
  BY <1>0, <1>3 DEF Stream
<1>6. \A t \in Streams : /\ next[t].queue = IF t = s THEN Tail(streams[s].queue)
                                                     ELSE streams[t].queue
                         /\ next[t].unseen = streams[t].unseen
  BY <1>0 DEF Stream
<1> HIDE DEF next
<1>7. Shrinks(streams, next)
  BY <1>3, <1>4, <1>5, <1>6 DEF Shrinks
<1>8. Shrinks(streams, streams')
  BY <1>0, <1>2, <1>7, PolledShrinks
<1>9. streams[s].queue \in Seq(Happened(s))
  BY DEF IInv, StreamInv
<1>10. Item(s) \in Happened(s)
  BY <1>2, <1>9, SuffixCases DEF Item
<1> QED BY <1>2, <1>8, <1>9, <1>10

(* The channel to the rollup keeps the last blocks.                        *)
LEMMA LastOfType ==
    ASSUME NEW S, NEW seq \in Seq(S), NEW n \in Nat \ {0}
    PROVE  LastOf(seq, n) \in Seq(S)
<1> DEFINE m == IF Len(seq) > n THEN Len(seq) - n + 1 ELSE 1
<1>1. m \in Int /\ Len(seq) \in Int /\ m >= 1
  OBVIOUS
<1>2. \A k \in m..Len(seq) : seq[k] \in S
  BY <1>1
<1> HIDE DEF m
<1>3. SubSeq(seq, m, Len(seq)) \in Seq(S)
  BY <1>1, <1>2, SubSeqProperties
<1> QED BY <1>3 DEF LastOf, m

(* A proposed block cancels the running auction and starts its own, which  *)
(* has neither bids nor a timer.                                           *)
LEMMA HandleProposedBlockPreserves ==
    ASSUME IInv, HandleProposedBlock
    PROVE  IInv'
<1> DEFINE b == Item("proposed")
           kept(i) == IF i = running THEN [auctions[i] EXCEPT !.cancelled = TRUE] ELSE auctions[i]
           old == [i \in DOMAIN auctions |-> kept(i)]
           new == StartNew(b)
<1>1. /\ Shrinks(streams, streams') /\ b \in Blocks
  BY StreamNames, ReceiveFacts DEF HandleProposedBlock
<1>2. new \in Auction
  <2>1. << >> \in Seq(Bid) /\ cached \in Nonces
    BY DEF IInv, TypeOK, SequencerState, RollupState
  <2> HIDE DEF b
  <2> QED BY <1>1, <2>1 DEF StartNew, Auction, Nonces
<1>3. Sound(new, sequencer.chain, rollup.executed) /\ new.startTimer = "unset"
  BY DEF StartNew, Sound
<1>4. ASSUME NEW i \in DOMAIN auctions
      PROVE  /\ kept(i) \in Auction /\ Sound(kept(i), sequencer.chain, rollup.executed)
             /\ kept(i).block = auctions[i].block
             /\ kept(i).startTimer = auctions[i].startTimer
  <2>1. auctions[i] \in Auction /\ Sound(auctions[i], sequencer.chain, rollup.executed)
    BY AuctionFacts
  <2>2. kept(i) \in Auction
    <3> DEFINE x == auctions[i]
    <3>1. x \in Auction
      BY <2>1
    <3> HIDE DEF x
    <3>2. [x EXCEPT !.cancelled = TRUE] \in Auction
      BY <3>1 DEF Auction
    <3> QED BY <2>1, <3>2 DEF x
  <2>3. /\ Sound(kept(i), sequencer.chain, rollup.executed)
        /\ kept(i).block = auctions[i].block
        /\ kept(i).startTimer = auctions[i].startTimer
    BY <2>1 DEF Sound, Auction
  <2> QED BY <2>2, <2>3
<1>5. auctions' = Append(old, new) /\ running' = Len(auctions) + 1
  BY DEF HandleProposedBlock, StartAuction
<1>6. /\ sequencer' = sequencer /\ cached' = cached
      /\ rollup' = IF streams["executed"].status = "closed" THEN rollup
                   ELSE [rollup EXCEPT !.base = LastOf(Append(@, b), BroadcastCapacity)]
  BY DEF HandleProposedBlock, Receive, StartAuction
<1>7. /\ rollup' \in RollupState
      /\ rollup'.executed = rollup.executed /\ rollup'.bids = rollup.bids
  <2> HIDE DEF b
  <2>1. rollup \in RollupState
    BY DEF IInv, TypeOK, SequencerState, RollupState
  <2>2. LastOf(Append(rollup.base, b), BroadcastCapacity) \in Seq(Blocks)
    <3>1. Append(rollup.base, b) \in Seq(Blocks)
      BY <1>1, <2>1 DEF RollupState
    <3> QED BY <3>1, LastOfType, AuctioneerAssumption
  <2> QED BY <1>6, <2>1, <2>2 DEF RollupState
<1> HIDE DEF new, kept
<1>8. old \in Seq(Auction) /\ Len(old) = Len(auctions)
  BY <1>4, AuctionFacts
<1>9. /\ auctions' \in Seq(Auction) /\ Len(auctions') = Len(auctions) + 1
      /\ \A i \in 1..Len(auctions) : auctions'[i] = kept(i)
      /\ auctions'[Len(auctions) + 1] = new
  BY <1>2, <1>5, <1>8, AuctionFacts
<1>10. \A i \in 1..Len(auctions') : i \in DOMAIN auctions \/ i = Len(auctions) + 1
  BY <1>9, AuctionFacts
<1>11. AuctionsInv'
  BY <1>3, <1>4, <1>6, <1>7, <1>9, <1>10, AuctionFacts DEF AuctionsInv
<1>12. TimersKept
  BY <1>3, <1>4, <1>9, <1>10, AuctionFacts DEF TimersKept
<1>13. TypeOK'
  <2>1. running' \in 0..Len(auctions')
    BY <1>5, <1>9, AuctionFacts
  <2>2. rollup'.executed = rollup.executed
    BY <1>7
  <2>3. auctions' \in Seq(Auction) /\ streams' \in [Streams -> Stream]
    BY <1>1, <1>9 DEF Shrinks
  <2> QED BY <1>6, <1>7, <2>1, <2>2, <2>3 DEF IInv, TypeOK, SequencerState, RollupState
<1> QED BY <1>1, <1>6, <1>7, <1>11, <1>12, <1>13, QuietStep

(* The rollup's execution of the block opens the running auction.          *)
LEMMA HandleExecutedBlockPreserves ==
    ASSUME IInv, HandleExecutedBlock
    PROVE  IInv'
<1> DEFINE block == Item("executed")
           a == auctions[running]
           b == [a EXCEPT !.startBids = "sent", !.rollupBlock = block]
<1>1. Shrinks(streams, streams') /\ block \in rollup.executed
  BY StreamNames, ReceiveFacts DEF HandleExecutedBlock
<1>2. block \in RollupBlock
  BY <1>1 DEF IInv, TypeOK, SequencerState, RollupState
<1>3. UNCHANGED <<sequencer, rollup, running, cached>>
  BY DEF HandleExecutedBlock, Receive, StartBids
<1>4. CASE auctions' = auctions
  <2>1. AuctionsInv' /\ TimersKept
    BY <1>3, <1>4, AuctionsKept DEF IInv
  <2>2. TypeOK'
    BY <1>1, <1>3, <1>4 DEF IInv, TypeOK, SequencerState, RollupState, Shrinks
  <2> QED BY <1>1, <1>3, <2>1, <2>2, QuietStep
<1>5. CASE Listening(running) /\ auctions' = [auctions EXCEPT ![running] = b]
  <2>0. running \in DOMAIN auctions
    BY <1>5, AuctionFacts DEF Listening, IInv, TypeOK, SequencerState, RollupState
  <2>1. a \in Auction /\ Sound(a, sequencer.chain, rollup.executed)
    BY <2>0, AuctionFacts
  <2> HIDE DEF block
  <2>2. b \in Auction
    BY <1>2, <2>1 DEF Auction
  <2>3. /\ Sound(b, sequencer.chain, rollup.executed) /\ b.block = a.block
        /\ b.startTimer = a.startTimer
    BY <2>1 DEF Sound, Auction
  <2> HIDE DEF b
  <2>4. /\ AuctionsInv' /\ TimersKept
        /\ auctions' \in Seq(Auction) /\ Len(auctions') = Len(auctions)
    BY <1>3, <1>5, <2>0, <2>2, <2>3, ReplaceAuction
  <2>5. TypeOK'
    BY <1>1, <1>3, <2>4 DEF IInv, TypeOK, SequencerState, RollupState, Shrinks
  <2> QED BY <1>1, <1>3, <2>4, <2>5, QuietStep
<1> QED BY <1>4, <1>5 DEF HandleExecutedBlock, StartBids

(* Only a bid on the block that the auction was opened with is forwarded.  *)
LEMMA HandleBidsPreserves ==
    ASSUME IInv, HandleBids
    PROVE  IInv'
<1> DEFINE bid == Item("bids")
           a == auctions[running]
           b == [a EXCEPT !.bids = Append(a.bids, bid)]
<1>1. Shrinks(streams, streams') /\ bid \in rollup.bids
  BY StreamNames, ReceiveFacts DEF HandleBids
<1>2. bid \in Bid /\ bid.parent \in rollup.executed
  BY <1>1 DEF IInv, TypeOK, SequencerState, RollupState, BidsInv
<1>3. UNCHANGED <<sequencer, rollup, running, cached>>
  BY DEF HandleBids, Receive, ForwardBid
<1>4. CASE auctions' = auctions
  <2>1. AuctionsInv' /\ TimersKept
    BY <1>3, <1>4, AuctionsKept DEF IInv
  <2>2. TypeOK'
    BY <1>1, <1>3, <1>4 DEF IInv, TypeOK, SequencerState, RollupState, Shrinks
  <2> QED BY <1>1, <1>3, <2>1, <2>2, QuietStep
<1>5. CASE /\ Listening(running) /\ DoesBidMatchAuction(bid, a)
           /\ auctions' = [auctions EXCEPT ![running] = b]
  <2>0. running \in DOMAIN auctions
    BY <1>5, AuctionFacts DEF Listening, IInv, TypeOK, SequencerState, RollupState
  <2>1. a \in Auction /\ Sound(a, sequencer.chain, rollup.executed)
    BY <2>0, AuctionFacts
  <2>2. Extends(bid, a.block, rollup.executed)
    BY <1>2, <1>5 DEF DoesBidMatchAuction, Extends
  <2> HIDE DEF bid
  <2>3. a.bids \in Seq(Bid)
    BY <2>1 DEF Auction
  <2>4. /\ Append(a.bids, bid) \in Seq(Bid)
        /\ \A k \in 1..Len(Append(a.bids, bid)) :
              \/ Append(a.bids, bid)[k] = bid
              \/ k \in 1..Len(a.bids) /\ Append(a.bids, bid)[k] = a.bids[k]
    BY <1>2, <2>3
  <2>5. b \in Auction
    BY <2>1, <2>4 DEF Auction
  <2>6. \A k \in 1..Len(Append(a.bids, bid)) :
            Extends(Append(a.bids, bid)[k], a.block, rollup.executed)
    BY <2>1, <2>2, <2>4 DEF Sound
  <2>7. /\ Sound(b, sequencer.chain, rollup.executed) /\ b.block = a.block
        /\ b.startTimer = a.startTimer
    BY <2>1, <2>6 DEF Sound, Auction
  <2> HIDE DEF b
  <2>8. /\ AuctionsInv' /\ TimersKept
        /\ auctions' \in Seq(Auction) /\ Len(auctions') = Len(auctions)
    BY <1>3, <1>5, <2>0, <2>5, <2>7, ReplaceAuction
  <2>9. TypeOK'
    BY <1>1, <1>3, <2>8 DEF IInv, TypeOK, SequencerState, RollupState, Shrinks
  <2> QED BY <1>1, <1>3, <2>8, <2>9, QuietStep
<1> QED BY <1>4, <1>5 DEF HandleBids, ForwardBid

(* The commitment that is taken from the queue starts the timer of at most *)
(* one auction, the running one if it is for that block, and is in no      *)
(* other place.                                                            *)
LEMMA HandleBlockCommitmentPreserves ==
    ASSUME IInv, HandleBlockCommitment
    PROVE  IInv'
<1> DEFINE h == Item("commitments")
           q == streams["commitments"].queue
           a == auctions[running]
           b == [a EXCEPT !.startTimer = "sent"]
<1>1. /\ Shrinks(streams, streams') /\ h \in sequencer.chain
      /\ q \in Seq(sequencer.chain) /\ q # << >> /\ "commitments" \in Streams
  BY StreamNames, ReceiveFacts DEF HandleBlockCommitment
<1>2. UNCHANGED <<sequencer, rollup, running, cached>>
  BY DEF HandleBlockCommitment, Receive, StartTimer
<1>3. CASE auctions' = auctions
  <2>1. AuctionsInv' /\ TimersKept
    BY <1>2, <1>3, AuctionsKept DEF IInv
  <2>2. TypeOK'
    BY <1>1, <1>2, <1>3 DEF IInv, TypeOK, SequencerState, RollupState, Shrinks
  <2> QED BY <1>1, <1>2, <2>1, <2>2, QuietStep
<1>4. CASE /\ Listening(running) /\ a.block = h /\ a.startTimer = "unset"
           /\ auctions' = [auctions EXCEPT ![running] = b]
  <2>0. running \in DOMAIN auctions
    BY <1>4, AuctionFacts DEF Listening, IInv, TypeOK, SequencerState, RollupState
  <2>1. a \in Auction /\ Sound(a, sequencer.chain, rollup.executed)
    BY <2>0, AuctionFacts
  <2>2. b \in Auction
    BY <2>1 DEF Auction
  <2>3. /\ Sound(b, sequencer.chain, rollup.executed) /\ b.block = a.block
    BY <1>1, <1>4, <2>1 DEF Sound, Auction
  <2> HIDE DEF b
  <2>4. /\ auctions' \in Seq(Auction) /\ Len(auctions') = Len(auctions)
        /\ \A j \in 1..Len(auctions) : auctions'[j] = IF j = running THEN b ELSE auctions[j]
    <3>1. auctions' = [auctions EXCEPT ![running] = b]
      BY <1>4
    <3> QED BY <2>0, <2>2, <3>1, AuctionFacts
  <2>5. AuctionsInv'
    BY <1>2, <2>3, <2>4 DEF AuctionsInv, IInv
  <2>6. TypeOK'
    BY <1>1, <1>2, <2>4 DEF IInv, TypeOK, SequencerState, RollupState, Shrinks
  <2>7. ChainInv' /\ BidsInv'
    BY <1>2 DEF IInv, ChainInv, BidsInv
  <2>8. StreamInv'
    \* the streams shrink: as in a step that leaves the auctions alone
    <3>1. ASSUME NEW s \in Streams
          PROVE  /\ streams'[s].queue \in Seq(Happened(s))
                 /\ streams'[s].unseen =>
                      s \in SequencerStreams /\ sequencer.bus[s] \in Happened(s)
      <4>1. /\ streams[s].queue \in Seq(Happened(s))
            /\ streams[s].unseen => s \in SequencerStreams /\ sequencer.bus[s] \in Happened(s)
        BY DEF IInv, StreamInv
      <4>2. /\ streams'[s].queue \in Seq(Blocks \cup RollupBlock \cup Bid)
            /\ Suffix(streams[s].queue, streams'[s].queue)
            /\ streams'[s].unseen => streams[s].unseen
        BY <1>1 DEF Shrinks, Stream
      <4> QED BY <4>1, <4>2, SuffixType
    <3>2. ASSUME NEW s \in Streams PROVE Happened(s)' = Happened(s)
      BY <1>2, StreamNames DEF Happened
    <3> QED BY <1>2, <3>1, <3>2 DEF StreamInv
  <2>9. CommitmentInv'
    <3> DEFINE r == streams'["commitments"].queue
               u == streams["commitments"].unseen
               v == streams'["commitments"].unseen
               c == sequencer.bus["commitments"]
    <3>1. /\ Len(q) \in Nat \ {0} /\ h = q[1]
          /\ Len(Tail(q)) = Len(q) - 1
          /\ \A k \in 1..Len(Tail(q)) : k + 1 \in 1..Len(q) /\ Tail(q)[k] = q[k + 1]
      BY <1>1 DEF Item
    <3>2. (r = Tail(q) \/ r = << >>) /\ (v => u)
      BY <1>1, StreamNames DEF HandleBlockCommitment, Receive, Polled, Opening, Shrinks,
                               IInv, TypeOK, Stream
    <3>3. \A k \in 1..Len(r) : k + 1 \in 1..Len(q) /\ r[k] = q[k + 1]
      <4>1. CASE r = Tail(q)
        BY <3>1, <4>1
      <4>2. CASE r = << >>
        <5> HIDE DEF r, q
        <5> QED BY <4>2
      <4> QED BY <3>2, <4>1, <4>2
    <3>4. Len(r) \in Nat
      BY <3>1, <3>2
    <3>5. /\ \A k, l \in 1..Len(q) : q[k] = q[l] => k = l
          /\ u => \A k \in 1..Len(q) : q[k] # c
          /\ \A i \in 1..Len(auctions) : auctions[i].startTimer # "unset" =>
               /\ \A k \in 1..Len(q) : q[k] # auctions[i].block
               /\ u => c # auctions[i].block
          /\ \A i, j \in 1..Len(auctions) :
               (/\ auctions[i].startTimer # "unset" /\ auctions[j].startTimer # "unset"
                /\ auctions[i].block = auctions[j].block) => i = j
      BY DEF IInv, CommitmentInv, Commitments, Unseen, LastCommitment, Timed
    <3> HIDE DEF q, r, u, v, c, h
    <3>6. \A k \in 1..Len(r) : r[k] # h
      BY <3>1, <3>3, <3>4, <3>5
    <3>7. u => c # h
      BY <3>1, <3>5
    <3>8. \A j \in 1..Len(auctions) : auctions[j].startTimer # "unset" => auctions[j].block # h
      BY <3>1, <3>5
    <3>9. /\ \A k, l \in 1..Len(r) : r[k] = r[l] => k = l
          /\ v => \A k \in 1..Len(r) : r[k] # c
      BY <3>1, <3>2, <3>3, <3>4, <3>5
    <3>10. \A i \in 1..Len(auctions') : auctions'[i].startTimer # "unset" =>
               /\ \A k \in 1..Len(r) : r[k] # auctions'[i].block
               /\ v => c # auctions'[i].block
      <4> SUFFICES ASSUME NEW i \in 1..Len(auctions'), auctions'[i].startTimer # "unset"
                   PROVE  /\ \A k \in 1..Len(r) : r[k] # auctions'[i].block
                          /\ v => c # auctions'[i].block
        OBVIOUS
      <4>1. CASE i = running
        BY <1>4, <2>3, <2>4, <3>2, <3>6, <3>7, <4>1
      <4>2. CASE i # running
        BY <2>4, <3>2, <3>3, <3>5, <4>2
      <4> QED BY <4>1, <4>2
    <3>11. \A i, j \in 1..Len(auctions') :
             (/\ auctions'[i].startTimer # "unset" /\ auctions'[j].startTimer # "unset"
              /\ auctions'[i].block = auctions'[j].block) => i = j
      BY <1>4, <2>3, <2>4, <3>5, <3>8
    <3>12. sequencer'.bus["commitments"] = c
      BY <1>2 DEF c
    <3> QED BY <3>9, <3>10, <3>11, <3>12
            DEF CommitmentInv, Commitments, Unseen, LastCommitment, Timed, r, v
  <2> QED BY <2>5, <2>6, <2>7, <2>8, <2>9 DEF IInv
<1> QED BY <1>3, <1>4 DEF HandleBlockCommitment, StartTimer

-----------------------------------------------------------------------------
(* The Sequencer and the rollup *)

(* A step that changes one stream, while what has happened grows.          *)
LEMMA OneStreamGrows ==
    ASSUME IInv, NEW s \in Streams,
           sequencer.chain \subseteq sequencer'.chain,
           rollup.executed \subseteq rollup'.executed, rollup.bids \subseteq rollup'.bids,
           \A t \in Streams \ {s} : streams'[t] = streams[t],
           \A t \in SequencerStreams \ {s} : sequencer'.bus[t] = sequencer.bus[t],
           streams'[s].queue \in Seq(Happened(s)'),
           streams'[s].unseen => s \in SequencerStreams /\ sequencer'.bus[s] \in Happened(s)'
    PROVE  StreamInv'
<1>1. ASSUME NEW t \in Streams PROVE Happened(t) \subseteq Happened(t)'
  BY StreamNames DEF Happened
<1> SUFFICES ASSUME NEW t \in Streams
             PROVE  /\ streams'[t].queue \in Seq(Happened(t)')
                    /\ streams'[t].unseen =>
                         t \in SequencerStreams /\ sequencer'.bus[t] \in Happened(t)'
  BY DEF StreamInv
<1>2. CASE t = s
  BY <1>2
<1>3. CASE t # s
  <2>1. /\ streams[t].queue \in Seq(Happened(t))
        /\ streams[t].unseen => t \in SequencerStreams /\ sequencer.bus[t] \in Happened(t)
    BY DEF IInv, StreamInv
  <2>2. streams[t].queue \in Seq(Happened(t)')
    BY <1>1, <2>1, SeqMonotonic
  <2> QED BY <1>1, <1>3, <2>1, <2>2
<1> QED BY <1>2, <1>3

(* A step that touches neither the commitments nor a timer.                *)
LEMMA CommitmentsUntouched ==
    ASSUME IInv, TimersKept, streams'["commitments"] = streams["commitments"],
           sequencer'.bus["commitments"] = sequencer.bus["commitments"]
    PROVE  CommitmentInv'
<1>1. streams["commitments"].queue \in Seq(Blocks \cup RollupBlock \cup Bid)
  BY StreamNames DEF IInv, TypeOK, Stream
<1>2. Suffix(streams["commitments"].queue, streams["commitments"].queue)
  BY <1>1, SuffixCases
<1> QED BY <1>1, <1>2, CommitmentsKept DEF IInv

(* A proposal is published, which the stream may not have seen yet.        *)
LEMMA ProcessProposalPreserves ==
    ASSUME IInv, NEW b \in Blocks, ProcessProposal(b)
    PROVE  IInv'
<1>0. /\ streams \in [Streams -> Stream] /\ "proposed" \in Streams
      /\ "proposed" \in SequencerStreams /\ "commitments" \in SequencerStreams
      /\ "commitments" \in Streams
  BY StreamNames DEF IInv, TypeOK, SequencerState, RollupState
<1>1. /\ sequencer' \in SequencerState
      /\ sequencer'.height = sequencer.height /\ sequencer'.chain = sequencer.chain
      /\ sequencer'.nonces = sequencer.nonces
      /\ sequencer'.bus["proposed"] = b
      /\ \A t \in SequencerStreams \ {"proposed"} : sequencer'.bus[t] = sequencer.bus[t]
  <2> DEFINE bus == [sequencer.bus EXCEPT !["proposed"] = b]
  <2>1. sequencer \in SequencerState
    BY DEF IInv, TypeOK
  <2>2. /\ bus \in [SequencerStreams -> Blocks \cup {NoBlock}] /\ bus["proposed"] = b
        /\ \A t \in SequencerStreams \ {"proposed"} : bus[t] = sequencer.bus[t]
    BY <1>0, <2>1 DEF SequencerState
  <2>3. /\ sequencer' = [sequencer EXCEPT !.proposals = @ + 1, !.bus = bus]
        /\ Height[b] = sequencer.height + 1
    BY DEF ProcessProposal
  <2> HIDE DEF bus
  <2>4. sequencer' \in SequencerState
    <3>1. bus \in [SequencerStreams -> Blocks \cup {NoBlock}]
      BY <2>2
    <3>2. sequencer' = [height |-> sequencer.height, chain |-> sequencer.chain,
                        proposals |-> sequencer.proposals + 1, nonces |-> sequencer.nonces,
                        bus |-> bus]
      BY <2>1, <2>3 DEF SequencerState
    <3>3. /\ sequencer.height \in Nat /\ sequencer.chain \in SUBSET Blocks
          /\ sequencer.proposals + 1 \in Nat /\ sequencer.nonces \in SUBSET Nat
      BY <2>1 DEF SequencerState
    <3> QED BY <3>1, <3>2, <3>3 DEF SequencerState
  <2>5. sequencer'.bus = bus
    BY <2>1, <2>3 DEF SequencerState
  <2>6. /\ sequencer'.height = sequencer.height /\ sequencer'.chain = sequencer.chain
        /\ sequencer'.nonces = sequencer.nonces
    BY <2>1, <2>3 DEF SequencerState
  <2> QED BY <2>2, <2>4, <2>5, <2>6
<1>2. UNCHANGED <<rollup, auctions, running, cached>>
  BY DEF ProcessProposal
<1>3. /\ streams' \in [Streams -> Stream]
      /\ \A t \in Streams \ {"proposed"} : streams'[t] = streams[t]
      /\ streams'["proposed"].queue = streams["proposed"].queue
  BY <1>0 DEF ProcessProposal, Publish, Stream
<1>4. AuctionsInv' /\ TimersKept
  BY <1>1, <1>2, AuctionsKept DEF IInv
<1>5. StreamInv'
  <2>1. streams["proposed"].queue \in Seq(Happened("proposed"))
    BY <1>0 DEF IInv, StreamInv
  <2>2. Happened("proposed") = Blocks /\ Happened("proposed")' = Blocks
    BY DEF Happened
  <2> QED BY <1>0, <1>1, <1>2, <1>3, <2>1, <2>2, OneStreamGrows
<1>6. CommitmentInv'
  <2>1. streams'["commitments"] = streams["commitments"]
    BY <1>0, <1>3
  <2> QED BY <1>0, <1>1, <1>4, <2>1, CommitmentsUntouched
<1>7. TypeOK'
  BY <1>1, <1>2, <1>3 DEF IInv, TypeOK, SequencerState, RollupState
<1>8. ChainInv' /\ BidsInv'
  BY <1>1, <1>2 DEF IInv, ChainInv, BidsInv
<1> QED BY <1>4, <1>5, <1>6, <1>7, <1>8 DEF IInv

(* A finalized block is higher than all before it, so that no commitment   *)
(* of it has been seen.                                                    *)
LEMMA FinalizeBlockPreserves ==
    ASSUME IInv, NEW b \in Blocks, FinalizeBlock(b)
    PROVE  IInv'
<1> DEFINE q == streams["commitments"].queue
<1>0. /\ streams \in [Streams -> Stream]
      /\ "commitments" \in SequencerStreams /\ "commitments" \in Streams
  BY StreamNames DEF IInv, TypeOK, SequencerState, RollupState
<1>1. /\ sequencer' \in SequencerState
      /\ sequencer.height \in Nat
      /\ sequencer'.height = sequencer.height + 1 /\ Height[b] = sequencer.height + 1
      /\ sequencer'.chain = sequencer.chain \cup {b}
      /\ sequencer'.nonces = sequencer.nonces
      /\ sequencer'.bus["commitments"] = b
      /\ \A t \in SequencerStreams \ {"commitments"} : sequencer'.bus[t] = sequencer.bus[t]
  <2> DEFINE bus == [sequencer.bus EXCEPT !["commitments"] = b]
  <2>1. sequencer \in SequencerState
    BY DEF IInv, TypeOK
  <2>2. /\ bus \in [SequencerStreams -> Blocks \cup {NoBlock}] /\ bus["commitments"] = b
        /\ \A t \in SequencerStreams \ {"commitments"} : bus[t] = sequencer.bus[t]
    BY <1>0, <2>1 DEF SequencerState
  <2>3. /\ sequencer' = [sequencer EXCEPT !.height = @ + 1, !.chain = @ \cup {b}, !.bus = bus]
        /\ Height[b] = sequencer.height + 1
    BY DEF FinalizeBlock
  <2> HIDE DEF bus
  <2>4. sequencer' \in SequencerState
    <3>1. bus \in [SequencerStreams -> Blocks \cup {NoBlock}]
      BY <2>2
    <3>2. sequencer' = [height |-> sequencer.height + 1, chain |-> sequencer.chain \cup {b},
                        proposals |-> sequencer.proposals, nonces |-> sequencer.nonces,
                        bus |-> bus]
      BY <2>1, <2>3 DEF SequencerState
    <3>3. /\ sequencer.height + 1 \in Nat /\ sequencer.chain \cup {b} \in SUBSET Blocks
          /\ sequencer.proposals \in Nat /\ sequencer.nonces \in SUBSET Nat
      BY <2>1 DEF SequencerState
    <3> QED BY <3>1, <3>2, <3>3 DEF SequencerState
  <2>5. sequencer'.bus = bus
    BY <2>1, <2>3 DEF SequencerState
  <2>6. /\ sequencer.height \in Nat /\ sequencer'.height = sequencer.height + 1
        /\ sequencer'.chain = sequencer.chain \cup {b}
        /\ sequencer'.nonces = sequencer.nonces
    BY <2>1, <2>3 DEF SequencerState
  <2> QED BY <2>2, <2>3, <2>4, <2>5, <2>6
<1>2. UNCHANGED <<rollup, auctions, running, cached>>
  BY DEF FinalizeBlock
<1>3. /\ streams' \in [Streams -> Stream]
      /\ \A t \in Streams \ {"commitments"} : streams'[t] = streams[t]
      /\ streams'["commitments"].queue = q
  BY <1>0 DEF FinalizeBlock, Publish, Stream
<1>4. AuctionsInv' /\ TimersKept
  BY <1>1, <1>2, AuctionsKept DEF IInv
<1>5. ChainInv' /\ BidsInv'
  BY <1>1, <1>2 DEF IInv, ChainInv, BidsInv
<1>6. b \notin sequencer.chain
  BY <1>1 DEF IInv, ChainInv
<1>7. q \in Seq(sequencer.chain)
  BY <1>0, StreamNames DEF IInv, StreamInv
<1>8. StreamInv'
  <2>1. Happened("commitments")' = sequencer'.chain
    BY DEF Happened
  <2>2. q \in Seq(sequencer'.chain)
    BY <1>1, <1>7, SeqMonotonic
  <2> QED BY <1>0, <1>1, <1>2, <1>3, <2>1, <2>2, OneStreamGrows
<1>9. CommitmentInv'
  <2>1. \A k \in 1..Len(q) : q[k] # b
    BY <1>6, <1>7
  <2>2. \A i \in 1..Len(auctions) : auctions[i].startTimer # "unset" => auctions[i].block # b
    BY <1>6 DEF IInv, AuctionsInv, Sound
  <2> QED BY <1>1, <1>2, <1>3, <2>1, <2>2
          DEF IInv, CommitmentInv, Commitments, Unseen, LastCommitment, Timed
<1>10. TypeOK'
  BY <1>1, <1>2, <1>3 DEF IInv, TypeOK, SequencerState, RollupState
<1> QED BY <1>4, <1>5, <1>8, <1>9, <1>10 DEF IInv

(* The last event, which the stream had not seen, joins its queue.         *)
LEMMA ForwardEventPreserves ==
    ASSUME IInv, NEW s \in SequencerStreams, ForwardEvent(s)
    PROVE  IInv'
<1> DEFINE q == streams[s].queue
           b == sequencer.bus[s]
<1>0. /\ streams \in [Streams -> Stream] /\ s \in Streams /\ "commitments" \in Streams
      /\ s \in {"proposed", "commitments"}
  BY StreamNames DEF IInv, TypeOK
<1>1. /\ UNCHANGED <<sequencer, rollup, auctions, running, cached>>
      /\ streams' = [streams EXCEPT ![s].unseen = FALSE, ![s].queue = Append(q, b)]
      /\ streams[s].unseen
  BY DEF ForwardEvent
<1>2. q \in Seq(Happened(s)) /\ b \in Happened(s)
  BY <1>0, <1>1 DEF IInv, StreamInv
<1>3. Happened(s) \subseteq Blocks
  BY <1>0, StreamNames DEF IInv, TypeOK, SequencerState
<1>4. Append(q, b) \in Seq(Happened(s)) /\ Len(q) \in Nat
  BY <1>2
<1>5. Append(q, b) \in Seq(Blocks \cup RollupBlock \cup Bid)
  BY <1>3, <1>4, SeqMonotonic
<1> HIDE DEF q, b
<1>6. /\ streams' \in [Streams -> Stream]
      /\ \A t \in Streams \ {s} : streams'[t] = streams[t]
      /\ streams'[s].queue = Append(q, b) /\ streams'[s].unseen = FALSE
  BY <1>0, <1>1, <1>5 DEF Stream
<1>7. AuctionsInv' /\ TimersKept
  BY <1>1, AuctionsKept DEF IInv
<1>8. Happened(s)' = Happened(s)
  BY <1>1 DEF Happened
<1>9. StreamInv'
  BY <1>0, <1>1, <1>4, <1>6, <1>8, OneStreamGrows
<1>10. CommitmentInv'
  <2>1. CASE s = "commitments"
    <3>1. \A k \in 1..Len(Append(q, b)) :
             \/ k \in 1..Len(q) /\ Append(q, b)[k] = q[k]
             \/ k = Len(q) + 1 /\ Append(q, b)[k] = b
      BY <1>2, <1>4
    <3>2. /\ \A k, l \in 1..Len(q) : q[k] = q[l] => k = l
          /\ \A k \in 1..Len(q) : q[k] # b
          /\ \A i \in 1..Len(auctions) : auctions[i].startTimer # "unset" =>
               /\ \A k \in 1..Len(q) : q[k] # auctions[i].block
               /\ b # auctions[i].block
          /\ \A i, j \in 1..Len(auctions) :
               (/\ auctions[i].startTimer # "unset" /\ auctions[j].startTimer # "unset"
                /\ auctions[i].block = auctions[j].block) => i = j
      BY <1>1, <2>1 DEF IInv, CommitmentInv, Commitments, Unseen, LastCommitment, Timed, q, b
    <3>3. \A k, l \in 1..Len(Append(q, b)) : Append(q, b)[k] = Append(q, b)[l] => k = l
      BY <3>1, <3>2
    <3>4. \A i \in 1..Len(auctions) : auctions[i].startTimer # "unset" =>
              \A k \in 1..Len(Append(q, b)) : Append(q, b)[k] # auctions[i].block
      BY <3>1, <3>2
    <3>5. streams'["commitments"].queue = Append(q, b) /\ ~ streams'["commitments"].unseen
      BY <1>6, <2>1
    <3>6. auctions' = auctions
      BY <1>1
    <3> DEFINE r == Append(q, b)
    <3> HIDE DEF r
    <3>7. /\ streams'["commitments"].queue = r
          /\ \A k, l \in 1..Len(r) : r[k] = r[l] => k = l
          /\ \A i \in 1..Len(auctions) : auctions[i].startTimer # "unset" =>
                 \A k \in 1..Len(r) : r[k] # auctions[i].block
      BY <3>3, <3>4, <3>5 DEF r
    <3> QED BY <3>2, <3>5, <3>6, <3>7
            DEF CommitmentInv, Commitments, Unseen, LastCommitment, Timed
  <2>2. CASE s # "commitments"
    <3>1. streams'["commitments"] = streams["commitments"]
      BY <1>0, <1>6, <2>2
    <3> QED BY <1>1, <1>7, <3>1, CommitmentsUntouched
  <2> QED BY <2>1, <2>2
<1>11. TypeOK'
  BY <1>1, <1>6 DEF IInv, TypeOK
<1>12. ChainInv' /\ BidsInv'
  BY <1>1 DEF IInv, ChainInv, BidsInv
<1> QED BY <1>7, <1>9, <1>10, <1>11, <1>12 DEF IInv

(* The rollup adds to what it has executed or bid, and to one stream.      *)
LEMMA RollupStep ==
    ASSUME IInv, NEW s \in RollupStreams, NEW item \in RollupBlock \cup Bid,
           rollup' \in RollupState, IsFiniteSet(rollup'.executed),
           rollup.executed \subseteq rollup'.executed, rollup.bids \subseteq rollup'.bids,
           BidsInv', item \in Happened(s)',
           streams' = [streams EXCEPT ![s].queue = Append(@, item)],
           UNCHANGED <<sequencer, auctions, running, cached>>
    PROVE  IInv'
<1> DEFINE q == streams[s].queue
<1>0. /\ streams \in [Streams -> Stream] /\ s \in Streams /\ "commitments" \in Streams
      /\ s # "commitments" /\ s \notin SequencerStreams
  BY StreamNames DEF IInv, TypeOK, RollupStreams
<1>1. q \in Seq(Happened(s)) /\ ~ streams[s].unseen
  BY <1>0 DEF IInv, StreamInv
<1>2. Happened(s) \subseteq Happened(s)'
  BY <1>0, StreamNames DEF Happened
<1>3. q \in Seq(Happened(s)')
  BY <1>1, <1>2, SeqMonotonic
<1>4. Append(q, item) \in Seq(Happened(s)')
  BY <1>3
<1>5. q \in Seq(Blocks \cup RollupBlock \cup Bid)
  BY <1>0 DEF Stream
<1>6. Append(q, item) \in Seq(Blocks \cup RollupBlock \cup Bid)
  BY <1>5
<1>7. /\ streams' \in [Streams -> Stream]
      /\ \A t \in Streams \ {s} : streams'[t] = streams[t]
      /\ streams'[s].queue = Append(q, item) /\ streams'[s].unseen = streams[s].unseen
  BY <1>0, <1>6 DEF Stream
<1>8. AuctionsInv' /\ TimersKept
  BY AuctionsKept DEF IInv
<1>9. StreamInv'
  BY <1>0, <1>1, <1>4, <1>7, OneStreamGrows
<1>10. CommitmentInv'
  <2>1. streams'["commitments"] = streams["commitments"]
    BY <1>0, <1>7
  <2> QED BY <1>8, <2>1, CommitmentsUntouched
<1>11. TypeOK'
  BY <1>7 DEF IInv, TypeOK
<1>12. ChainInv'
  BY DEF IInv, ChainInv
<1> QED BY <1>8, <1>9, <1>10, <1>11, <1>12 DEF IInv

(* The rollup executes the next block that it was sent.                    *)
LEMMA ExecuteOptimisticBlockPreserves ==
    ASSUME IInv, ExecuteOptimisticBlock
    PROVE  IInv'
<1> DEFINE block == [base |-> Head(rollup.base), version |-> Cardinality(rollup.executed)]
<1>1. rollup \in RollupState /\ IsFiniteSet(rollup.executed)
  BY DEF IInv, TypeOK
<1>2. /\ rollup.base # << >>
      /\ rollup' = [rollup EXCEPT !.base = Tail(rollup.base),
                                  !.executed = rollup.executed \cup {block}]
      /\ streams' = [streams EXCEPT !["executed"].queue = Append(@, block)]
      /\ UNCHANGED <<sequencer, auctions, running, cached>>
  BY DEF ExecuteOptimisticBlock
<1>3. rollup.base \in Seq(Blocks) /\ Head(rollup.base) \in Blocks /\ Tail(rollup.base) \in Seq(Blocks)
  BY <1>1, <1>2 DEF RollupState
<1>4. Cardinality(rollup.executed) \in Nat
  BY <1>1, FS_CardinalityType
<1>5. block \in RollupBlock
  BY <1>3, <1>4 DEF RollupBlock
<1> HIDE DEF block
<1>6. /\ rollup' \in RollupState /\ rollup'.executed = rollup.executed \cup {block}
      /\ rollup'.bids = rollup.bids
  BY <1>1, <1>2, <1>3, <1>5 DEF RollupState
<1>7. IsFiniteSet(rollup'.executed)
  BY <1>1, <1>6, FS_AddElement
<1>8. BidsInv'
  BY <1>6 DEF IInv, BidsInv
<1>9. block \in Happened("executed")'
  BY <1>6 DEF Happened
<1>10. "executed" \in RollupStreams
  BY DEF RollupStreams
<1> QED BY <1>2, <1>5, <1>6, <1>7, <1>8, <1>9, <1>10, RollupStep

(* A bid is on a block that the rollup has executed.                       *)
LEMMA SendBidPreserves ==
    ASSUME IInv, NEW bid \in [parent : rollup.executed, fee : Fees], SendBid(bid)
    PROVE  IInv'
<1>1. rollup \in RollupState /\ IsFiniteSet(rollup.executed)
  BY DEF IInv, TypeOK
<1>2. /\ rollup' = [rollup EXCEPT !.bids = rollup.bids \cup {bid}]
      /\ streams' = [streams EXCEPT !["bids"].queue = Append(@, bid)]
      /\ UNCHANGED <<sequencer, auctions, running, cached>>
  BY DEF SendBid
<1>3. bid \in Bid /\ bid.parent \in rollup.executed
  BY <1>1 DEF RollupState, Bid
<1>4. /\ rollup' \in RollupState /\ rollup'.executed = rollup.executed
      /\ rollup'.bids = rollup.bids \cup {bid}
  BY <1>1, <1>2, <1>3 DEF RollupState
<1>5. BidsInv'
  BY <1>3, <1>4 DEF IInv, BidsInv
<1>6. bid \in Happened("bids")'
  BY <1>4 DEF Happened
<1>7. "bids" \in RollupStreams
  BY DEF RollupStreams
<1> QED BY <1>1, <1>2, <1>3, <1>4, <1>5, <1>6, <1>7, RollupStep

-----------------------------------------------------------------------------
(* Theorems *)

(* The invariant holds before the auctioneer starts.                       *)
LEMMA InitIInv == Init => IInv
<1> SUFFICES ASSUME Init PROVE IInv
  OBVIOUS
<1>1. Opening \in Stream /\ streams \in [Streams -> Stream] /\ auctions \in Seq(Auction)
  BY DEF Init, Opening, Stream
<1>2. IsFiniteSet({})
  BY FS_EmptySet
<1>3. TypeOK
  BY <1>1, <1>2 DEF Init, TypeOK, SequencerState, RollupState, Nonces
<1>4. ChainInv /\ BidsInv /\ AuctionsInv
  BY DEF Init, ChainInv, BidsInv, AuctionsInv
<1>5. \A s \in Streams : streams[s].queue = << >> /\ streams[s].unseen = FALSE
  BY DEF Init, Opening
<1>6. StreamInv
  <2>1. \A S : << >> \in Seq(S)
    OBVIOUS
  <2> QED BY <1>5, <2>1 DEF StreamInv
<1>7. CommitmentInv
  <2>1. streams["commitments"].queue = << >> /\ streams["commitments"].unseen = FALSE
    BY <1>5, StreamNames
  <2> QED BY <2>1 DEF CommitmentInv, Commitments, Unseen, Init
<1> QED BY <1>3, <1>4, <1>6, <1>7 DEF IInv

(* Every step of the Sequencer, the rollup, the event loop and the workers *)
(* keeps it.                                                               *)
LEMMA StepIInv == IInv /\ [Next]_vars => IInv'
<1> SUFFICES ASSUME IInv, [Next]_vars PROVE IInv'
  OBVIOUS
<1>1. CASE Environment
  <2>1. CASE \E b \in Blocks : ProcessProposal(b) \/ FinalizeBlock(b)
    BY <2>1, ProcessProposalPreserves, FinalizeBlockPreserves
  <2>2. CASE ExecuteOptimisticBlock
    BY <2>2, ExecuteOptimisticBlockPreserves
  <2>3. CASE \E bid \in [parent : rollup.executed, fee : Fees] : SendBid(bid)
    BY <2>3, SendBidPreserves
  <2>4. CASE \E s \in Streams : OpenFails(s)
    BY <2>4, OpenFailsPreserves
  <2>5. CASE \E ended \in (SUBSET SequencerStreams \cup SUBSET RollupStreams) \ {{}} :
               StreamsEnd(ended)
    BY <2>5, StreamsEndPreserves
  <2>6. CASE \E i \in DOMAIN auctions : FetchNonce(i)
    BY <2>6, FetchNoncePreserves
  <2>7. CASE \E i \in DOMAIN auctions, verdict \in {"accepted", "rejected"} : CheckTx(i, verdict)
    BY <2>7, CheckTxPreserves
  <2>8. CASE ShutdownSignal
    BY <2>8, ShutDownPreserves DEF ShutdownSignal
  <2>9. CASE Restart
    BY <2>9, RestartPreserves
  <2> QED BY <1>1, <2>1, <2>2, <2>3, <2>4, <2>5, <2>6, <2>7, <2>8, <2>9 DEF Environment
<1>2. CASE EventLoop
  <2>1. CASE \E s \in Streams : StreamClosed(s)
    BY <2>1, ShutDownPreserves DEF StreamClosed
  <2> QED BY <1>2, <2>1, HandleProposedBlockPreserves, HandleBlockCommitmentPreserves,
             HandleExecutedBlockPreserves, HandleBidsPreserves, JoinedPreserves DEF EventLoop
<1>3. CASE \E s \in SequencerStreams : ForwardEvent(s)
  BY <1>3, ForwardEventPreserves
<1>4. CASE \E s \in Streams : Open(s)
  BY <1>4, OpenPreserves
<1>5. CASE \E i \in DOMAIN auctions : Work(i) \/ TimerUp(i) \/ Answered(i) \/ GiveUp(i)
  BY <1>5, SignalsPreserve, ReceiveBidPreserves, TimerUpPreserves, WorkerEndsPreserves DEF Work
<1>6. CASE UNCHANGED vars
  <2>1. Shrinks(streams, streams')
    BY <1>6, PolledShrinks DEF vars, IInv, TypeOK
  <2>2. rollup' \in [base : Seq(Blocks), executed : {rollup.executed}, bids : {rollup.bids}]
    BY <1>6 DEF vars, IInv, TypeOK, RollupState
  <2> QED BY <1>6, <2>1, <2>2, StreamStep DEF vars
<1> QED BY <1>1, <1>2, <1>3, <1>4, <1>5, <1>6 DEF Next

(* The inductive invariant, for any number of auctions, bids and faults.   *)
THEOREM Invariance == Spec => []IInv
BY InitIInv, StepIInv, PTL DEF Spec

(* Type correctness.                                                       *)
THEOREM TypeCorrect == Spec => []TypeOK
<1>1. IInv => TypeOK
  BY DEF IInv
<1> QED BY <1>1, Invariance, PTL

(* Whatever the four streams lose or reorder, a transaction is sent only   *)
(* for an auction whose block the Sequencer has committed, and its bid     *)
(* builds on the rollup block made of that block.                          *)
THEOREM WinnerExtendsCommittedBlockHolds == Spec => []WinnerExtendsCommittedBlock
<1>1. IInv => WinnerExtendsCommittedBlock
  BY AuctionFacts DEF WinnerExtendsCommittedBlock, Sound, Extends
<1> QED BY <1>1, Invariance, PTL

(* Two auctions of the same block never both send a winner, in whatever    *)
(* rounds it was proposed and however often the streams or the process     *)
(* restarted: the commitment of a block starts one timer.                  *)
THEOREM SoldOnceHolds == Spec => []SoldOnce
<1>1. IInv => SoldOnce
  <2> SUFFICES ASSUME IInv, NEW i \in DOMAIN auctions, NEW j \in DOMAIN auctions,
                      auctions[i].tx # "none", auctions[j].tx # "none",
                      auctions[i].block = auctions[j].block
               PROVE  i = j
    BY DEF SoldOnce
  <2>1. auctions[i].startTimer # "unset" /\ auctions[j].startTimer # "unset"
    BY AuctionFacts DEF Sound
  <2> QED BY <2>1, AuctionFacts DEF IInv, CommitmentInv, Timed
<1> QED BY <1>1, Invariance, PTL

=============================================================================
