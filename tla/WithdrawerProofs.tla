-------------------------- MODULE WithdrawerProofs --------------------------
(***************************************************************************)
(* Proofs about Withdrawer for any rollup blocks with withdrawals, any     *)
(* size of the queue, any faults, and whether or not the bridge account    *)
(* signs for itself: no withdrawal is overtaken by a later one.            *)
(***************************************************************************)
EXTENDS Withdrawer, SequenceTheorems, FiniteSetTheorems, TLAPS

-----------------------------------------------------------------------------
(* The inductive invariant *)

Tx == [height : Nat, nonce : Nat]

SequencerState == [executed : Seq(Nat), pending : SUBSET Tx, wire : SUBSET Tx]
ProcessState == [status : {"running", "stopping", "killed", "down"},
                 startup : {"mempool", "latest", "height", "done", "failed"},
                 pending : Nat, info : Nat]
WatcherState == [phase : {"startup", "subscribed", "sync", "watch"}, next : Nat, current : Nat]
SubmitterState ==
    [phase : {"startup", "idle", "nonce", "send", "sent", "wait", "rejected", "halted"}, tx : Tx]

TypeOK ==
    /\ head \in Nat /\ queue \in Seq(Nat)
    /\ sequencer \in SequencerState /\ IsFiniteSet(sequencer.pending)
    /\ process \in ProcessState /\ watcher \in WatcherState /\ submitter \in SubmitterState

Executed == {sequencer.executed[k] : k \in 1..Len(sequencer.executed)}

(* all withdrawals below height h are executed *)
Ready(h) == \A b \in Busy : b < h => b \in Executed

(* a transaction is made of a block with withdrawals when all before it are *)
(* executed, which they stay                                                *)
TxInv == \A tx \in sequencer.wire \cup sequencer.pending : tx.height \in Busy /\ Ready(tx.height)

(* the block whose transaction the submitter is working on *)
InFlight == IF submitter.phase \in {"startup", "idle"} THEN {} ELSE {submitter.tx.height}

SubmitterInv == \A h \in InFlight : h \in Busy /\ Ready(h)

StartupInv == process.startup = "done" => Ready(process.info)

(* the first n batches of a queue *)
Queued(q, n) == {q[k] : k \in 1..n}

(* whatever lies below a batch in the queue is executed, being submitted or *)
(* in front of it                                                           *)
QueueInv ==
    \A k \in 1..Len(queue) : \A b \in Busy :
        b < queue[k] => b \in Executed \cup InFlight \cup Queued(queue, k - 1)

(* the same of the next block that the watcher will send *)
WatcherInv ==
    watcher.phase # "startup" =>
        \A b \in Busy : b < watcher.next => b \in Executed \cup InFlight \cup Queued(queue, Len(queue))

IInv ==
    /\ TypeOK /\ NoWithdrawalSkipped /\ TxInv /\ SubmitterInv /\ StartupInv
    /\ QueueInv /\ WatcherInv

-----------------------------------------------------------------------------
(* What the steps have in common *)

(* What the invariant says of the types, in parts.                         *)
LEMMA Types ==
    ASSUME TypeOK
    PROVE  /\ sequencer.executed \in Seq(Nat) /\ Len(sequencer.executed) \in Nat
           /\ sequencer.pending \subseteq Tx /\ sequencer.wire \subseteq Tx
           /\ Executed \subseteq Nat /\ Busy \subseteq Nat
           /\ queue \in Seq(Nat) /\ Len(queue) \in Nat
           /\ submitter.tx \in Tx /\ submitter.tx.height \in Nat /\ submitter.tx.nonce \in Nat
           /\ watcher.next \in Nat /\ watcher.current \in Nat /\ process.info \in Nat
           /\ Nonce \in Nat /\ PendingNonce \in Nat
<1>1. /\ sequencer.executed \in Seq(Nat) /\ Len(sequencer.executed) \in Nat
      /\ sequencer.pending \subseteq Tx /\ sequencer.wire \subseteq Tx
      /\ queue \in Seq(Nat) /\ Len(queue) \in Nat
      /\ watcher.next \in Nat /\ watcher.current \in Nat /\ process.info \in Nat
  BY DEF TypeOK, SequencerState, WatcherState, ProcessState
<1>2. submitter.tx \in Tx /\ submitter.tx.height \in Nat /\ submitter.tx.nonce \in Nat
  BY DEF TypeOK, SubmitterState, Tx
<1>3. Busy \subseteq Nat
  BY HeightAssumption
<1>4. Executed \subseteq Nat
  BY <1>1 DEF Executed
<1>5. Cardinality(sequencer.pending) \in Nat
  BY FS_CardinalityType DEF TypeOK
<1>6. Nonce \in Nat /\ PendingNonce \in Nat
  BY <1>1, <1>5 DEF Nonce, PendingNonce
<1> QED BY <1>1, <1>2, <1>3, <1>4, <1>6

(* A step that neither executes a batch nor moves one on keeps the         *)
(* invariant, if what it sends is the block in flight.                     *)
LEMMA SteadyStep ==
    ASSUME IInv, TypeOK', sequencer'.executed = sequencer.executed,
           \A tx \in sequencer'.wire \cup sequencer'.pending :
               tx \in sequencer.wire \cup sequencer.pending \/ tx.height \in InFlight,
           process'.startup = "done" => process.startup = "done" /\ process'.info = process.info,
           queue' = queue, watcher'.next = watcher.next,
           watcher'.phase # "startup" => watcher.phase # "startup",
           InFlight' = InFlight
    PROVE  IInv'
<1>1. Executed' = Executed
  BY DEF Executed
<1>2. \A h : Ready(h)' = Ready(h)
  BY <1>1 DEF Ready
<1>3. NoWithdrawalSkipped'
  BY DEF IInv, NoWithdrawalSkipped, Nonce
<1>4. TxInv'
  BY <1>2 DEF IInv, TxInv, SubmitterInv
<1>5. SubmitterInv'
  BY <1>2 DEF IInv, SubmitterInv
<1>6. StartupInv'
  BY <1>2 DEF IInv, StartupInv
<1>7. QueueInv' /\ WatcherInv'
  BY <1>1 DEF IInv, QueueInv, WatcherInv, Queued
<1> QED BY <1>3, <1>4, <1>5, <1>6, <1>7 DEF IInv

(* Startup asks for nonces, or fails.                                      *)
LEMMA StartupPreserves ==
    ASSUME IInv, ReadPendingNonce \/ ReadLatestNonce \/ StartupFails
    PROVE  IInv'
<1>1. UNCHANGED <<head, sequencer, watcher, queue, submitter>>
  BY DEF ReadPendingNonce, ReadLatestNonce, StartupFails
<1>2. process' \in ProcessState /\ process'.startup # "done"
  <2>1. process \in ProcessState /\ PendingNonce \in Nat
    BY Types DEF IInv, TypeOK
  <2>2. PICK st \in {"mempool", "latest", "height", "failed"}, n \in Nat :
           process' = [process EXCEPT !.startup = st, !.pending = n]
    <3>1. process.pending \in Nat
      BY <2>1 DEF ProcessState
    <3>2. CASE ReadPendingNonce
      <4>1. (IF BridgeSigns THEN PendingNonce ELSE 0) \in Nat
        BY <2>1
      <4> QED BY <3>2, <4>1 DEF ReadPendingNonce
    <3>3. CASE ReadLatestNonce \/ StartupFails
      <4>1. \E st \in {"mempool", "latest", "height", "failed"} :
               process' = [process EXCEPT !.startup = st]
        BY <3>3 DEF ReadLatestNonce, StartupFails
      <4>2. \A st : [process EXCEPT !.startup = st]
                     = [process EXCEPT !.startup = st, !.pending = process.pending]
        BY <2>1 DEF ProcessState
      <4> QED BY <3>1, <4>1, <4>2
    <3> QED BY <3>2, <3>3
  <2> QED BY <2>1, <2>2 DEF ProcessState
<1>3. TypeOK'
  BY <1>1, <1>2 DEF IInv, TypeOK
<1>4. InFlight' = InFlight
  BY <1>1 DEF InFlight
<1> QED BY <1>1, <1>2, <1>3, <1>4, SteadyStep

(* The rollup grows, the process stops or is killed.                       *)
LEMMA OutsidePreserves ==
    ASSUME IInv, NewBlock \/ Terminate \/ Crash \/ Shutdown \/ UNCHANGED vars
    PROVE  IInv'
<1>1. UNCHANGED <<watcher, queue, submitter>>
  BY DEF NewBlock, Terminate, Crash, Shutdown, vars
<1>2. process' \in ProcessState /\ process'.startup = process.startup /\ process'.info = process.info
  <2>1. process \in ProcessState
    BY DEF IInv, TypeOK
  <2> QED BY <2>1 DEF ProcessState, NewBlock, Terminate, Crash, Shutdown, Stopping, vars
<1>3. head' \in Nat
  BY DEF IInv, TypeOK, NewBlock, Terminate, Crash, Shutdown, vars
<1>4. /\ sequencer' \in SequencerState /\ sequencer'.executed = sequencer.executed
      /\ sequencer'.pending = sequencer.pending /\ sequencer'.wire \subseteq sequencer.wire
  <2>1. sequencer \in SequencerState
    BY DEF IInv, TypeOK
  <2> QED BY <2>1 DEF SequencerState, NewBlock, Terminate, Crash, Shutdown, vars
<1>5. TypeOK'
  BY <1>1, <1>2, <1>3, <1>4 DEF IInv, TypeOK
<1>6. InFlight' = InFlight
  BY <1>1 DEF InFlight
<1> QED BY <1>1, <1>2, <1>4, <1>5, <1>6, SteadyStep

(* The submitter goes on with the batch that it has taken.                 *)
LEMMA SubmitPreserves ==
    ASSUME IInv, SubmitterReady \/ GetPendingNonce \/ BroadcastTx \/ GiveUp \/ CheckTxFails
    PROVE  IInv'
<1>1. UNCHANGED <<head, watcher, queue>>
  BY DEF SubmitterReady, GetPendingNonce, BroadcastTx, GiveUp, CheckTxFails, HaltSubmitter
<1>2. process' \in ProcessState /\ process'.startup = process.startup /\ process'.info = process.info
  <2>1. process \in ProcessState
    BY DEF IInv, TypeOK
  <2> QED BY <2>1 DEF ProcessState, SubmitterReady, GetPendingNonce, BroadcastTx, GiveUp,
                      CheckTxFails, HaltSubmitter, Stopping
<1>3. submitter \in SubmitterState /\ submitter.tx \in Tx /\ PendingNonce \in Nat
  BY Types DEF IInv, TypeOK
<1>4. submitter' \in SubmitterState /\ InFlight' = InFlight
  <2>1. CASE GetPendingNonce
    <3> DEFINE tx == [submitter.tx EXCEPT !.nonce = PendingNonce]
    <3>1. tx \in Tx /\ tx.height = submitter.tx.height
      BY <1>3 DEF Tx
    <3>2. submitter' = [phase |-> "send", tx |-> tx] /\ submitter.phase = "nonce"
      BY <2>1 DEF GetPendingNonce
    <3> HIDE DEF tx
    <3> QED BY <3>1, <3>2 DEF SubmitterState, InFlight
  <2>2. CASE SubmitterReady \/ BroadcastTx \/ GiveUp \/ CheckTxFails
    BY <1>3, <2>2 DEF SubmitterState, InFlight, SubmitterReady, BroadcastTx, GiveUp,
                      CheckTxFails, HaltSubmitter
  <2> QED BY <2>1, <2>2
<1>5. /\ sequencer' \in SequencerState /\ sequencer'.executed = sequencer.executed
      /\ sequencer'.pending = sequencer.pending
      /\ \/ sequencer'.wire = sequencer.wire
         \/ sequencer'.wire = sequencer.wire \cup {submitter.tx} /\ submitter.phase = "send"
  <2>1. sequencer \in SequencerState
    BY DEF IInv, TypeOK
  <2>2. CASE BroadcastTx
    <3>1. /\ sequencer' = [sequencer EXCEPT !.wire = sequencer.wire \cup {submitter.tx}]
          /\ submitter.phase = "send"
      BY <2>2 DEF BroadcastTx
    <3> QED BY <1>3, <2>1, <3>1 DEF SequencerState
  <2>3. CASE SubmitterReady \/ GetPendingNonce \/ GiveUp \/ CheckTxFails
    <3>1. sequencer' = sequencer
      BY <2>3 DEF SubmitterReady, GetPendingNonce, GiveUp, CheckTxFails
    <3> QED BY <2>1, <3>1
  <2> QED BY <2>2, <2>3
<1>6. TypeOK'
  BY <1>1, <1>2, <1>4, <1>5 DEF IInv, TypeOK
<1>7. \A tx \in sequencer'.wire \cup sequencer'.pending :
               tx \in sequencer.wire \cup sequencer.pending \/ tx.height \in InFlight
  BY <1>5 DEF InFlight
<1> QED BY <1>1, <1>2, <1>4, <1>5, <1>6, <1>7, SteadyStep

(* The Sequencer checks, loses or drops a transaction.                     *)
LEMMA MempoolPreserves ==
    ASSUME IInv, NEW tx \in sequencer.wire \cup sequencer.pending,
           \/ tx \in sequencer.wire /\ (CheckTx(tx) \/ LoseCall(tx))
           \/ ExpireTx(tx)
    PROVE  IInv'
<1>1. UNCHANGED <<head, process, watcher, queue>>
  BY DEF CheckTx, LoseCall, ExpireTx
<1>2. submitter' \in SubmitterState /\ InFlight' = InFlight
  <2>1. submitter \in SubmitterState
    BY DEF IInv, TypeOK
  <2>2. \/ submitter' = submitter
        \/ /\ submitter.phase = "sent"
           /\ \E p \in {"wait", "rejected", "send"} : submitter' = [submitter EXCEPT !.phase = p]
    BY DEF CheckTx, LoseCall, ExpireTx, Answer, Awaits
  <2> QED BY <2>1, <2>2 DEF SubmitterState, InFlight
<1>3. /\ sequencer' \in SequencerState /\ sequencer'.executed = sequencer.executed
      /\ sequencer'.wire \subseteq sequencer.wire
      /\ sequencer'.pending \subseteq sequencer.pending \cup {tx}
  <2>1. sequencer \in SequencerState
    BY DEF IInv, TypeOK
  <2>2. tx \in Tx
    BY Types DEF IInv
  <2>3. PICK w \in SUBSET sequencer.wire, q \in SUBSET (sequencer.pending \cup {tx}) :
           sequencer' = [sequencer EXCEPT !.wire = w, !.pending = q]
    <3>1. \A w : [sequencer EXCEPT !.wire = w]
                  = [sequencer EXCEPT !.wire = w, !.pending = sequencer.pending]
      BY <2>1 DEF SequencerState
    <3>2. \A q : [sequencer EXCEPT !.pending = q]
                  = [sequencer EXCEPT !.wire = sequencer.wire, !.pending = q]
      BY <2>1 DEF SequencerState
    <3>3. CASE CheckTx(tx)
      <4>1. \/ sequencer' = [sequencer EXCEPT !.wire = sequencer.wire \ {tx}]
            \/ \E q \in {sequencer.pending, sequencer.pending \cup {tx}} :
                  sequencer' = [sequencer EXCEPT !.wire = sequencer.wire \ {tx}, !.pending = q]
        BY <3>3 DEF CheckTx
      <4>2. CASE sequencer' = [sequencer EXCEPT !.wire = sequencer.wire \ {tx}]
        BY <3>1, <4>2
      <4>3. CASE \E q \in {sequencer.pending, sequencer.pending \cup {tx}} :
                  sequencer' = [sequencer EXCEPT !.wire = sequencer.wire \ {tx}, !.pending = q]
        <5>1. PICK q \in {sequencer.pending, sequencer.pending \cup {tx}} :
                  sequencer' = [sequencer EXCEPT !.wire = sequencer.wire \ {tx}, !.pending = q]
          BY <4>3
        <5>2. q \in SUBSET (sequencer.pending \cup {tx})
          BY <5>1
        <5>3. sequencer.wire \ {tx} \in SUBSET sequencer.wire
          OBVIOUS
        <5> QED BY <5>1, <5>2, <5>3
      <4> QED BY <4>1, <4>2, <4>3
    <3>4. CASE LoseCall(tx)
      BY <3>1, <3>4 DEF LoseCall
    <3>5. CASE ExpireTx(tx)
      BY <3>2, <3>5 DEF ExpireTx
    <3> QED BY <3>3, <3>4, <3>5
  <2> QED BY <2>1, <2>2, <2>3 DEF SequencerState
<1>4. IsFiniteSet(sequencer'.pending)
  <2>1. IsFiniteSet(sequencer.pending \cup {tx})
    BY FS_AddElement DEF IInv, TypeOK
  <2> QED BY <1>3, <2>1, FS_Subset
<1>5. TypeOK'
  BY <1>1, <1>2, <1>3, <1>4 DEF IInv, TypeOK
<1> QED BY <1>1, <1>2, <1>3, <1>5, SteadyStep

-----------------------------------------------------------------------------
(* Startup, the watcher and the queue *)

(* All withdrawals up to the last batch that was executed are executed.    *)
LEMMA StartingHeightReady ==
    ASSUME IInv
    PROVE  StartingRollupHeight \in Nat /\ Ready(StartingRollupHeight)
<1> DEFINE n == Len(sequencer.executed)
           last == sequencer.executed[n]
<1>1. CASE BridgeSigns /\ sequencer.executed # << >>
  <2>1. n \in Nat /\ n \in 1..n /\ last \in Nat
    BY <1>1, Types DEF IInv
  <2>2. StartingRollupHeight = last + 1
    BY <1>1 DEF StartingRollupHeight, Last
  <2>3. \A h \in Busy : h < last => \E j \in 1..(n - 1) : sequencer.executed[j] = h
    BY <2>1 DEF IInv, NoWithdrawalSkipped, Nonce
  <2>4. \A h \in Busy : h < last + 1 => h \in Executed
    <3> SUFFICES ASSUME NEW h \in Busy, h < last + 1 PROVE h \in Executed
      OBVIOUS
    <3>1. h \in Nat
      BY Types DEF IInv
    <3>2. CASE h = last
      BY <2>1, <3>2 DEF Executed
    <3>3. CASE h < last
      BY <2>1, <2>3, <3>3 DEF Executed
    <3> QED BY <2>1, <3>1, <3>2, <3>3
  <2> QED BY <2>1, <2>2, <2>4 DEF Ready
<1>2. CASE ~ (BridgeSigns /\ sequencer.executed # << >>)
  <2>1. StartingRollupHeight = 1
    BY <1>2 DEF StartingRollupHeight
  <2>2. \A b \in Busy : ~ (b < 1)
    BY HeightAssumption
  <2> QED BY <2>1, <2>2 DEF Ready
<1> QED BY <1>1, <1>2

(* Startup goes on after the last batch that was executed.                 *)
LEMMA GetStartingRollupHeightPreserves ==
    ASSUME IInv, GetStartingRollupHeight
    PROVE  IInv'
<1>1. UNCHANGED <<head, sequencer, watcher, queue, submitter>>
  BY DEF GetStartingRollupHeight
<1>2. StartingRollupHeight \in Nat /\ Ready(StartingRollupHeight)
  BY StartingHeightReady
<1>3. process' \in ProcessState /\ process'.info = StartingRollupHeight
  <2>1. process \in ProcessState
    BY DEF IInv, TypeOK
  <2>2. process' = [process EXCEPT !.startup = "done", !.info = StartingRollupHeight]
    BY DEF GetStartingRollupHeight
  <2> QED BY <1>2, <2>1, <2>2 DEF ProcessState
<1>4. TypeOK'
  BY <1>1, <1>3 DEF IInv, TypeOK
<1>5. Executed' = Executed /\ InFlight' = InFlight
  BY <1>1 DEF Executed, InFlight
<1>6. \A h : Ready(h)' = Ready(h)
  BY <1>5 DEF Ready
<1>7. StartupInv'
  BY <1>2, <1>3, <1>6 DEF StartupInv
<1>8. NoWithdrawalSkipped'
  BY <1>1 DEF IInv, NoWithdrawalSkipped, Nonce
<1>9. TxInv' /\ SubmitterInv'
  BY <1>1, <1>5, <1>6 DEF IInv, TxInv, SubmitterInv
<1>10. QueueInv' /\ WatcherInv'
  BY <1>1, <1>5 DEF IInv, QueueInv, WatcherInv, Queued
<1> QED BY <1>4, <1>7, <1>8, <1>9, <1>10 DEF IInv

(* A step of the watcher that sends nothing.                               *)
LEMMA WatcherStep ==
    ASSUME IInv, watcher' \in WatcherState, WatcherInv',
           UNCHANGED <<head, sequencer, process, queue, submitter>>
    PROVE  IInv'
<1>1. TypeOK'
  BY DEF IInv, TypeOK
<1>2. Executed' = Executed /\ InFlight' = InFlight
  BY DEF Executed, InFlight
<1>3. \A h : Ready(h)' = Ready(h)
  BY <1>2 DEF Ready
<1>4. StartupInv' /\ NoWithdrawalSkipped'
  BY <1>3 DEF IInv, StartupInv, NoWithdrawalSkipped, Nonce
<1>5. TxInv' /\ SubmitterInv'
  BY <1>2, <1>3 DEF IInv, TxInv, SubmitterInv
<1>6. QueueInv'
  BY <1>2 DEF IInv, QueueInv, Queued
<1> QED BY <1>1, <1>4, <1>5, <1>6 DEF IInv

(* The watcher begins with the height that startup found.                  *)
LEMMA SubscribePreserves ==
    ASSUME IInv, Subscribe
    PROVE  IInv'
<1>1. /\ watcher' = [phase |-> "subscribed", next |-> process.info, current |-> head]
      /\ process.startup = "done"
      /\ UNCHANGED <<head, sequencer, process, queue, submitter>>
  BY DEF Subscribe
<1>2. watcher' \in WatcherState
  BY <1>1, Types DEF IInv, TypeOK, WatcherState
<1>3. Ready(process.info)
  BY <1>1 DEF IInv, StartupInv
<1>4. Executed' = Executed
  BY <1>1 DEF Executed
<1>5. WatcherInv'
  BY <1>1, <1>3, <1>4 DEF WatcherInv, Ready
<1> QED BY <1>1, <1>2, <1>5, WatcherStep

(* The first block of the subscription ends the range to sync, and the     *)
(* blocks that follow are watched for.                                     *)
LEMMA SyncPreserves ==
    ASSUME IInv, FirstBlock \/ Synced
    PROVE  IInv'
<1>1. UNCHANGED <<head, sequencer, process, queue, submitter>>
  BY DEF FirstBlock, Synced
<1>2. watcher \in WatcherState /\ watcher.next \in Nat /\ watcher.current \in Nat /\ Busy \subseteq Nat
  BY Types DEF IInv, TypeOK
<1>3. PICK p \in {"sync", "watch"}, m \in Nat, c \in Nat :
         watcher' = [watcher EXCEPT !.phase = p, !.next = m, !.current = c] /\ m <= watcher.next
  <2>1. CASE FirstBlock
    <3> DEFINE c == IF watcher.current = MaxHeight THEN watcher.current ELSE watcher.current + 1
    <3>1. c \in Nat
      BY <1>2
    <3>2. watcher' = [watcher EXCEPT !.phase = "sync", !.current = c]
      BY <2>1 DEF FirstBlock
    <3> HIDE DEF c
    <3>3. watcher' = [watcher EXCEPT !.phase = "sync", !.next = watcher.next, !.current = c]
      BY <1>2, <3>2 DEF WatcherState
    <3>4. watcher.next <= watcher.next
      BY <1>2
    <3> QED BY <1>2, <3>1, <3>3, <3>4
  <2>2. CASE Synced
    <3>1. /\ watcher' = [watcher EXCEPT !.phase = "watch", !.next = watcher.current + 1]
          /\ watcher.next > watcher.current
      BY <2>2 DEF Synced
    <3>2. watcher' = [watcher EXCEPT !.phase = "watch", !.next = watcher.current + 1,
                                     !.current = watcher.current]
      BY <1>2, <3>1 DEF WatcherState
    <3>3. watcher.current + 1 \in Nat /\ watcher.current + 1 <= watcher.next
      BY <1>2, <3>1
    <3> QED BY <1>2, <3>2, <3>3
  <2> QED BY <2>1, <2>2
<1>4. watcher' \in WatcherState /\ watcher'.next = m /\ watcher.phase # "startup"
  BY <1>2, <1>3 DEF FirstBlock, Synced, WatcherState
<1>5. Executed' = Executed /\ InFlight' = InFlight
  BY <1>1 DEF Executed, InFlight
<1>6. \A b \in Busy : b < watcher.next => b \in Executed \cup InFlight \cup Queued(queue, Len(queue))
  BY <1>4 DEF IInv, WatcherInv
<1>7. \A b \in Busy : b < watcher'.next => b < watcher.next
  BY <1>2, <1>3, <1>4
<1>8. Queued(queue', Len(queue')) = Queued(queue, Len(queue))
  BY <1>1 DEF Queued
<1>9. WatcherInv'
  BY <1>5, <1>6, <1>7, <1>8 DEF WatcherInv
<1> QED BY <1>1, <1>4, <1>9, WatcherStep

(* The batch that is sent is that of the next block.                       *)
LEMMA SendBatchPreserves ==
    ASSUME IInv, SyncUnprocessedRollupHeight \/ WatchForBlock
    PROVE  IInv'
<1> DEFINE n == Len(queue)
<1>1. /\ UNCHANGED <<head, sequencer, process, submitter>>
      /\ queue' = Append(queue, watcher.next)
      /\ watcher' = [watcher EXCEPT !.next = watcher.next + 1]
      /\ watcher.phase # "startup"
  BY DEF SyncUnprocessedRollupHeight, WatchForBlock, SendBatch
<1>2. /\ watcher \in WatcherState /\ watcher.next \in Nat /\ Busy \subseteq Nat
      /\ queue \in Seq(Nat) /\ n \in Nat
  BY Types DEF IInv, TypeOK
<1>3. watcher' \in WatcherState /\ watcher'.next = watcher.next + 1
  BY <1>1, <1>2 DEF WatcherState
<1>4. /\ queue' \in Seq(Nat) /\ Len(queue') = n + 1
      /\ \A k \in 1..n : queue'[k] = queue[k]
      /\ queue'[n + 1] = watcher.next
  BY <1>1, <1>2
<1>5. TypeOK'
  BY <1>1, <1>3, <1>4 DEF IInv, TypeOK
<1>6. Executed' = Executed /\ InFlight' = InFlight
  BY <1>1 DEF Executed, InFlight
<1>7. \A h : Ready(h)' = Ready(h)
  BY <1>6 DEF Ready
<1>8. StartupInv' /\ NoWithdrawalSkipped'
  BY <1>1, <1>7 DEF IInv, StartupInv, NoWithdrawalSkipped, Nonce
<1>9. TxInv' /\ SubmitterInv'
  BY <1>1, <1>6, <1>7 DEF IInv, TxInv, SubmitterInv
<1>10. \A b \in Busy : b < watcher.next => b \in Executed \cup InFlight \cup Queued(queue, n)
  BY <1>1 DEF IInv, WatcherInv
<1>11. \A k \in 0..n : Queued(queue', k) = Queued(queue, k)
  <2> SUFFICES ASSUME NEW k \in 0..n PROVE Queued(queue', k) = Queued(queue, k)
    OBVIOUS
  <2>1. \A j \in 1..k : queue'[j] = queue[j]
    BY <1>2, <1>4
  <2> QED BY <2>1 DEF Queued
<1>12. Queued(queue', n + 1) = Queued(queue, n) \cup {watcher.next}
  <2>1. 1..(n + 1) = 1..n \cup {n + 1}
    BY <1>2
  <2> QED BY <1>4, <2>1 DEF Queued
<1>13. QueueInv'
  <2> SUFFICES ASSUME NEW k \in 1..Len(queue'), NEW b \in Busy, b < queue'[k]
               PROVE  b \in Executed \cup InFlight \cup Queued(queue', k - 1)
    BY <1>6 DEF QueueInv
  <2>1. CASE k \in 1..n
    <3>1. b \in Executed \cup InFlight \cup Queued(queue, k - 1)
      BY <1>4, <2>1 DEF IInv, QueueInv
    <3>2. k - 1 \in 0..n
      BY <1>2, <2>1
    <3> QED BY <1>11, <3>1, <3>2
  <2>2. CASE k = n + 1
    <3>1. b \in Executed \cup InFlight \cup Queued(queue, n)
      BY <1>4, <1>10, <2>2
    <3>2. k - 1 = n /\ n \in 0..n
      BY <1>2, <2>2
    <3> QED BY <1>11, <3>1, <3>2
  <2> QED BY <1>2, <1>4, <2>1, <2>2
<1>14. WatcherInv'
  <2>1. \A b \in Busy : b < watcher.next + 1 => b < watcher.next \/ b = watcher.next
    BY <1>2
  <2>2. Queued(queue', Len(queue')) = Queued(queue, n) \cup {watcher.next}
    BY <1>4, <1>12 DEF Queued
  <2> QED BY <1>3, <1>6, <1>10, <2>1, <2>2 DEF WatcherInv
<1> QED BY <1>5, <1>8, <1>9, <1>13, <1>14 DEF IInv

(* The first batch of the queue is taken when all before it are executed.  *)
LEMMA TakeBatchPreserves ==
    ASSUME IInv, TakeBatch
    PROVE  IInv'
<1> DEFINE h == Head(queue)
           rest == Tail(queue)
<1>1. /\ UNCHANGED <<head, sequencer, process, watcher>>
      /\ queue # << >> /\ queue' = rest /\ submitter.phase = "idle"
      /\ submitter' = IF h \in Busy
                      THEN [phase |-> "nonce", tx |-> [NoTx EXCEPT !.height = h]]
                      ELSE submitter
  BY DEF TakeBatch
<1>2. queue \in Seq(Nat) /\ Len(queue) \in Nat /\ Busy \subseteq Nat
  BY Types DEF IInv
<1>3. /\ h = queue[1] /\ h \in Nat /\ rest \in Seq(Nat) /\ Len(rest) = Len(queue) - 1
      /\ 1 \in 1..Len(queue)
      /\ \A k \in 1..Len(rest) : k + 1 \in 1..Len(queue) /\ rest[k] = queue[k + 1]
  BY <1>1, <1>2
<1> HIDE DEF h, rest
<1>4. InFlight = {} /\ InFlight' = {h} \cap Busy
  <2>1. [NoTx EXCEPT !.height = h].height = h
    BY DEF NoTx
  <2> QED BY <1>1, <2>1 DEF InFlight
<1>5. submitter' \in SubmitterState
  <2>1. [NoTx EXCEPT !.height = h] \in Tx
    BY <1>3 DEF NoTx, Tx
  <2> QED BY <1>1, <2>1 DEF IInv, TypeOK, SubmitterState
<1>6. TypeOK'
  BY <1>1, <1>3, <1>5 DEF IInv, TypeOK
<1>7. Executed' = Executed
  BY <1>1 DEF Executed
<1>8. \A g : Ready(g)' = Ready(g)
  BY <1>7 DEF Ready
<1>9. StartupInv' /\ NoWithdrawalSkipped' /\ TxInv'
  BY <1>1, <1>8 DEF IInv, StartupInv, NoWithdrawalSkipped, Nonce, TxInv
<1>10. Ready(h)
  <2>1. Queued(queue, 1 - 1) = {}
    BY DEF Queued
  <2>2. \A b \in Busy : b < queue[1] => b \in Executed \cup InFlight \cup Queued(queue, 1 - 1)
    BY <1>3 DEF IInv, QueueInv
  <2> QED BY <1>3, <1>4, <2>1, <2>2 DEF Ready
<1>11. SubmitterInv'
  BY <1>4, <1>8, <1>10 DEF SubmitterInv
<1>12. ASSUME NEW k \in 1..Len(queue), NEW b \in Busy, b \in Queued(queue, k)
       PROVE  b \in InFlight' \cup Queued(rest, k - 1)
  <2>1. PICK j \in 1..k : b = queue[j]
    BY <1>12 DEF Queued
  <2>2. CASE j = 1
    BY <1>3, <1>4, <2>1, <2>2
  <2>3. CASE j # 1
    <3>1. j - 1 \in 1..(k - 1) /\ j - 1 \in 1..Len(rest) /\ (j - 1) + 1 = j
      BY <1>2, <1>3, <2>3
    <3>2. b = rest[j - 1]
      BY <1>3, <2>1, <3>1
    <3> QED BY <3>1, <3>2 DEF Queued
  <2> QED BY <2>2, <2>3
<1>13. QueueInv'
  <2> SUFFICES ASSUME NEW k \in 1..Len(rest), NEW b \in Busy, b < rest[k]
               PROVE  b \in Executed \cup InFlight' \cup Queued(rest, k - 1)
    BY <1>1, <1>7 DEF QueueInv
  <2>1. k + 1 \in 1..Len(queue) /\ (k + 1) - 1 = k /\ k \in 1..Len(queue)
    BY <1>2, <1>3
  <2>2. b \in Executed \cup InFlight \cup Queued(queue, (k + 1) - 1)
    BY <1>3, <2>1 DEF IInv, QueueInv
  <2> QED BY <1>4, <1>12, <2>1, <2>2
<1>14. WatcherInv'
  <2> SUFFICES ASSUME watcher.phase # "startup", NEW b \in Busy, b < watcher.next
               PROVE  b \in Executed \cup InFlight' \cup Queued(rest, Len(rest))
    BY <1>1, <1>7 DEF WatcherInv
  <2>1. b \in Executed \cup InFlight \cup Queued(queue, Len(queue))
    BY DEF IInv, WatcherInv
  <2>2. Len(queue) \in 1..Len(queue) /\ Len(queue) - 1 = Len(rest)
    BY <1>2, <1>3
  <2> QED BY <1>4, <1>12, <2>1, <2>2
<1> QED BY <1>6, <1>9, <1>11, <1>13, <1>14 DEF IInv

(* The transaction that the submitter waits for is on the chain.           *)
LEMMA TxIncludedPreserves ==
    ASSUME IInv, TxIncluded
    PROVE  IInv'
<1>1. /\ UNCHANGED <<head, sequencer, process, watcher, queue>>
      /\ submitter.phase = "wait" /\ submitter' = [phase |-> "idle", tx |-> NoTx]
      /\ Included(submitter.tx)
  BY DEF TxIncluded
<1>2. submitter' \in SubmitterState
  BY <1>1 DEF SubmitterState, NoTx, Tx
<1>3. TypeOK'
  BY <1>1, <1>2 DEF IInv, TypeOK
<1>4. submitter.tx.height \in Executed
  <2>1. submitter.tx.nonce \in Nat /\ Len(sequencer.executed) \in Nat
    BY Types DEF IInv
  <2>2. /\ submitter.tx.nonce < Len(sequencer.executed)
        /\ sequencer.executed[submitter.tx.nonce + 1] = submitter.tx.height
    BY <1>1 DEF Included, Nonce
  <2>3. submitter.tx.nonce + 1 \in 1..Len(sequencer.executed)
    BY <2>1, <2>2
  <2> QED BY <2>2, <2>3 DEF Executed
<1>5. Executed' = Executed
  BY <1>1 DEF Executed
<1>6. InFlight = {submitter.tx.height} /\ InFlight' = {}
  BY <1>1 DEF InFlight
<1>7. \A h : Ready(h)' = Ready(h)
  BY <1>5 DEF Ready
<1>8. StartupInv' /\ NoWithdrawalSkipped' /\ TxInv'
  BY <1>1, <1>7 DEF IInv, StartupInv, NoWithdrawalSkipped, Nonce, TxInv
<1>9. SubmitterInv'
  BY <1>6 DEF SubmitterInv
<1>10. Executed \cup InFlight = Executed' \cup InFlight'
  BY <1>4, <1>5, <1>6
<1>11. QueueInv' /\ WatcherInv'
  BY <1>1, <1>10 DEF IInv, QueueInv, WatcherInv, Queued
<1> QED BY <1>3, <1>8, <1>9, <1>11 DEF IInv

-----------------------------------------------------------------------------
(* Execution and restart *)

(* The batch that is executed is that of the lowest block that is left, or *)
(* it has been executed before and fails.                                  *)
LEMMA ExecuteTxPreserves ==
    ASSUME IInv, NEW tx \in sequencer.pending, ExecuteTx(tx)
    PROVE  IInv'
<1> DEFINE ex == sequencer.executed
           n == Len(ex)
           h == tx.height
           new == IF h \in Range(ex) THEN ex ELSE Append(ex, h)
<1>1. /\ UNCHANGED <<head, process, watcher, queue, submitter>>
      /\ sequencer' = [sequencer EXCEPT !.pending = sequencer.pending \ {tx}, !.executed = new]
  BY DEF ExecuteTx
<1>2. /\ sequencer \in SequencerState /\ ex \in Seq(Nat) /\ n \in Nat /\ tx \in Tx
      /\ h \in Nat /\ Busy \subseteq Nat /\ Executed \subseteq Nat
  BY Types DEF IInv, TypeOK, Tx
<1>3. Range(ex) = Executed
  BY <1>2 DEF Range, Executed
<1>4. h \in Busy /\ Ready(h)
  BY DEF IInv, TxInv
<1>5. new \in Seq(Nat)
  BY <1>2
<1>6. /\ sequencer' \in SequencerState /\ sequencer'.executed = new
      /\ sequencer'.pending = sequencer.pending \ {tx} /\ sequencer'.wire = sequencer.wire
  <2> HIDE DEF new
  <2> QED BY <1>1, <1>2, <1>5 DEF SequencerState
<1>7. IsFiniteSet(sequencer'.pending)
  BY <1>6, FS_Subset DEF IInv, TypeOK
<1>8. TypeOK'
  BY <1>1, <1>6, <1>7 DEF IInv, TypeOK
<1>9. NoWithdrawalSkipped' /\ Executed \subseteq Executed'
  <2>1. \A k \in 1..n : /\ ex[k] \in Busy
                        /\ \A b \in Busy : b < ex[k] <=> \E j \in 1..(k - 1) : ex[j] = b
    BY DEF IInv, NoWithdrawalSkipped, Nonce
  <2>2. CASE h \in Executed
    <3>1. sequencer'.executed = ex
      BY <1>3, <1>6, <2>2
    <3> QED BY <2>1, <3>1 DEF NoWithdrawalSkipped, Nonce, Executed
  <2>3. CASE h \notin Executed
    <3> DEFINE r == Append(ex, h)
    <3>1. sequencer'.executed = r
      BY <1>3, <1>6, <2>3
    <3>2. /\ Len(r) = n + 1 /\ r[n + 1] = h
          /\ \A k \in 1..n : r[k] = ex[k]
      BY <1>2
    <3> HIDE DEF r, ex, h
    <3>3. \A b \in Busy : b < h <=> \E j \in 1..n : ex[j] = b
      <4>1. \A b \in Busy : b < h => \E j \in 1..n : ex[j] = b
        BY <1>4 DEF Ready, Executed, ex
      <4>2. \A j \in 1..n : ex[j] < h
        <5> SUFFICES ASSUME NEW j \in 1..n, ~ (ex[j] < h) PROVE FALSE
          OBVIOUS
        <5>1. ex[j] \in Busy /\ ex[j] \in Nat /\ ex[j] \in Executed
          BY <1>2, <2>1 DEF Executed, ex
        <5>2. ex[j] # h
          BY <2>3, <5>1
        <5>3. h < ex[j]
          BY <1>2, <5>1, <5>2
        <5>4. PICK i \in 1..(j - 1) : ex[i] = h
          BY <1>4, <2>1, <5>3
        <5>5. i \in 1..n
          BY <1>2
        <5> QED BY <2>3, <5>4, <5>5 DEF Executed, ex
      <4> QED BY <4>1, <4>2
    <3>4. ASSUME NEW k \in 1..Len(r)
          PROVE  /\ r[k] \in Busy
                 /\ \A b \in Busy : b < r[k] <=> \E j \in 1..(k - 1) : r[j] = b
      <4>1. CASE k \in 1..n
        <5>1. \A j \in 1..(k - 1) : j \in 1..n
          BY <1>2, <4>1
        <5>2. \A j \in 1..(k - 1) : r[j] = ex[j]
          BY <3>2, <5>1
        <5>3. /\ r[k] = ex[k] /\ ex[k] \in Busy
              /\ \A b \in Busy : b < ex[k] <=> \E j \in 1..(k - 1) : ex[j] = b
          BY <2>1, <3>2, <4>1
        <5> QED BY <5>2, <5>3
      <4>2. CASE k = n + 1
        <5>1. k - 1 = n
          BY <1>2, <4>2
        <5> QED BY <1>4, <3>2, <3>3, <4>2, <5>1
      <4> QED BY <1>2, <3>2, <4>1, <4>2
    <3>5. NoWithdrawalSkipped'
      BY <3>1, <3>4 DEF NoWithdrawalSkipped, Nonce
    <3>6. Executed \subseteq Executed'
      <4>1. \A k \in 1..n : k \in 1..Len(r)
        BY <1>2, <3>2
      <4> QED BY <3>1, <3>2, <4>1 DEF Executed, ex
    <3> QED BY <3>5, <3>6
  <2> QED BY <2>2, <2>3
<1>10. \A g : Ready(g) => Ready(g)'
  BY <1>9 DEF Ready
<1>11. InFlight' = InFlight
  BY <1>1 DEF InFlight
<1>12. StartupInv' /\ TxInv' /\ SubmitterInv'
  BY <1>1, <1>6, <1>10, <1>11 DEF IInv, StartupInv, TxInv, SubmitterInv
<1>13. QueueInv' /\ WatcherInv'
  BY <1>1, <1>9, <1>11 DEF IInv, QueueInv, WatcherInv, Queued
<1> QED BY <1>8, <1>9, <1>12, <1>13 DEF IInv

(* A new process has neither a queue nor a height, whatever is still on    *)
(* the wire.                                                               *)
LEMMA RestartPreserves ==
    ASSUME IInv, Restart
    PROVE  IInv'
<1>1. /\ UNCHANGED <<head, sequencer>> /\ queue' = << >>
      /\ process' = NewProcess /\ watcher' = NewWatcher /\ submitter' = NewSubmitter
  BY DEF Restart
<1>2. TypeOK'
  BY <1>1 DEF IInv, TypeOK, NewProcess, NewWatcher, NewSubmitter, ProcessState, WatcherState,
              SubmitterState, NoTx, Tx
<1>3. Executed' = Executed /\ InFlight' = {}
  BY <1>1 DEF Executed, InFlight, NewSubmitter
<1>4. \A h : Ready(h)' = Ready(h)
  BY <1>3 DEF Ready
<1>5. NoWithdrawalSkipped' /\ TxInv'
  BY <1>1, <1>4 DEF IInv, NoWithdrawalSkipped, Nonce, TxInv
<1>6. StartupInv' /\ SubmitterInv' /\ WatcherInv'
  BY <1>1, <1>3 DEF StartupInv, SubmitterInv, WatcherInv, NewProcess, NewWatcher
<1>7. QueueInv'
  BY <1>1 DEF QueueInv
<1> QED BY <1>2, <1>5, <1>6, <1>7 DEF IInv

-----------------------------------------------------------------------------
(* Theorems *)

(* The invariant holds when the first process starts.                      *)
LEMMA InitIInv == Init => IInv
<1> SUFFICES ASSUME Init PROVE IInv
  OBVIOUS
<1>1. TypeOK
  BY FS_EmptySet DEF Init, TypeOK, NewProcess, NewWatcher, NewSubmitter, SequencerState,
                     ProcessState, WatcherState, SubmitterState, NoTx, Tx
<1>2. NoWithdrawalSkipped /\ TxInv /\ QueueInv
  BY DEF Init, NoWithdrawalSkipped, Nonce, TxInv, QueueInv
<1>3. SubmitterInv /\ StartupInv /\ WatcherInv
  BY DEF Init, SubmitterInv, InFlight, StartupInv, WatcherInv, NewProcess, NewWatcher, NewSubmitter
<1> QED BY <1>1, <1>2, <1>3 DEF IInv

(* Every step of the process, the rollup and the Sequencer keeps it.       *)
LEMMA StepIInv == IInv /\ [Next]_vars => IInv'
<1> SUFFICES ASSUME IInv, [Next]_vars PROVE IInv'
  OBVIOUS
<1>1. CASE Startup \/ StartupFails
  BY <1>1, StartupPreserves, GetStartingRollupHeightPreserves DEF Startup
<1>2. CASE Watch
  BY <1>2, SubscribePreserves, SyncPreserves, SendBatchPreserves DEF Watch
<1>3. CASE Submit
  BY <1>3, SubmitPreserves, TakeBatchPreserves, TxIncludedPreserves DEF Submit
<1>4. CASE \E tx \in sequencer.wire : CheckTx(tx) \/ LoseCall(tx)
  BY <1>4, MempoolPreserves
<1>5. CASE \E tx \in sequencer.pending : ExecuteTx(tx) \/ ExpireTx(tx)
  BY <1>5, MempoolPreserves, ExecuteTxPreserves
<1>6. CASE NewBlock \/ Terminate \/ Shutdown \/ Crash \/ UNCHANGED vars
  BY <1>6, OutsidePreserves
<1>7. CASE Restart
  BY <1>7, RestartPreserves
<1> QED BY <1>1, <1>2, <1>3, <1>4, <1>5, <1>6, <1>7 DEF Next

(* The inductive invariant, for any blocks, queue size and faults.         *)
THEOREM Invariance == Spec => []IInv
BY InitIInv, StepIInv, PTL DEF Spec

(* Type correctness.                                                       *)
THEOREM TypeCorrect == Spec => []TypeOK
<1>1. IInv => TypeOK
  BY DEF IInv
<1> QED BY <1>1, Invariance, PTL

(* The executed batches are those of the lowest blocks with withdrawals,   *)
(* in order and each once, through lost calls and answers, expiry, delayed *)
(* calls, shutdowns and crashes, and even if the bridge account does not   *)
(* sign, when startup begins at the first block again.                     *)
THEOREM NoWithdrawalSkippedHolds == Spec => []NoWithdrawalSkipped
<1>1. IInv => NoWithdrawalSkipped
  BY DEF IInv
<1> QED BY <1>1, Invariance, PTL

=============================================================================
