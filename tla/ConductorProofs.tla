-------------------------- MODULE ConductorProofs ---------------------------
(***************************************************************************)
(* Proofs about Conductor for any sessions, heights, capacities and commit *)
(* levels: the inductive invariant IInv, and the safety properties that    *)
(* follow from it.                                                         *)
(***************************************************************************)
EXTENDS Conductor, SequenceTheorems, TLAPS

-----------------------------------------------------------------------------
(* The inductive invariant *)

(* heights already taken off a channel by the block in progress *)
FirmBase == IF cur.update \in {"OnlyFirm", "ToSame"} THEN NextFirm + 1 ELSE NextFirm
SoftBase == IF cur.update = "OnlySoft" THEN NextSoft + 1 ELSE NextSoft

StateInv ==
    /\ Canonical(state.firm) /\ Canonical(state.soft)
    /\ state.firm.number <= state.soft.number
    /\ IsWithFirm(level) => Sessions[session].rollupStart <= state.firm.number + 1
    /\ IsWithSoft(level) => Sessions[session].rollupStart <= state.soft.number + 1

FirmFeedInv ==
    /\ \A i \in 1..Len(firmBlocks) :
         /\ firmBlocks[i] = FirmBase + i - 1
         /\ firmBlocks[i] <= LastHeight
         /\ ~PastStopHeight(session, firmBlocks[i])
    /\ firmReader.task = "run" => firmReader.next = FirmBase + Len(firmBlocks)

SoftFeedInv ==
    /\ \A i \in 1..Len(softBlocks) :
         /\ \/ softBlocks[i] <= SoftBase
            \/ i > 1 /\ softBlocks[i] = softBlocks[i-1] + 1
         /\ ~PastStopHeight(session, softBlocks[i])
    /\ softReader.task = "run" =>
         \/ softReader.next <= SoftBase
         \/ /\ Len(softBlocks) > 0
            /\ softReader.next = softBlocks[Len(softBlocks)] + 1

LevelInv ==
    /\ ~IsWithFirm(level) => firmBlocks = << >> /\ firmReader = NoReader
    /\ ~IsWithSoft(level) => /\ softBlocks = << >> /\ softReader = NoReader
                             /\ DOMAIN blocksPendingFinalization = {}

CurInv ==
    /\ pc \in {"firm", "soft", "join"} => cur = Idle
    /\ pc \in {"execute", "fetch", "update", "apply"} =>
         /\ cur.update \in Updates
         /\ ~PastStopHeight(session, cur.height)
    /\ pc = "fetch" => cur.update = "OnlyFirm"
    /\ pc = "execute" => cur.update # "OnlyFirm"
    /\ cur.update = "OnlySoft" =>
         /\ cur.height = NextSoft
         /\ IsWithSoft(level)
         /\ IsWithFirm(level) =>
              state.soft.number < state.firm.number + Sessions[session].lookAhead
    /\ cur.update \in {"OnlyFirm", "ToSame"} =>
         cur.height = NextFirm /\ cur.height <= LastHeight /\ IsWithFirm(level)
    /\ cur.update = "ToSame" => ShouldExecuteFirmBlock
    /\ cur.update = "OnlyFirm" => state.firm.number < state.soft.number
    /\ pc \in {"update", "apply"} =>
         /\ Canonical(cur.block)
         /\ cur.block.number = NumberAt(session, cur.height)

PendingInv ==
    /\ \A n \in DOMAIN blocksPendingFinalization :
         /\ n \in state.firm.number + 1 .. state.soft.number
         /\ Canonical(blocksPendingFinalization[n])
         /\ blocksPendingFinalization[n].number = n
         /\ IsWithFirm(level) => n <= state.firm.number + Sessions[session].lookAhead
    /\ cur.update = "OnlyFirm" =>
         state.firm.number + 1 \notin DOMAIN blocksPendingFinalization

RollupInv ==
    \/ Commitments(rollup) = Commitments(state) /\ pc # "apply"
    \/ Commitments(rollup) = Wanted /\ pc \in {"update", "apply"}

IInv ==
    /\ TypeOK
    /\ Canonical(rollup.firm) /\ Canonical(rollup.soft)
    /\ rollup.firm.number <= rollup.soft.number
    /\ LevelInv
    /\ Running => /\ StateInv /\ FirmFeedInv /\ SoftFeedInv /\ CurInv
                  /\ PendingInv /\ RollupInv

-----------------------------------------------------------------------------
(* Lemmas about sessions and canonical blocks *)

(* The parameters of a session are natural numbers, starts positive.       *)
LEMMA SessionTypes ==
    ASSUME NEW j \in 1..Len(Sessions)
    PROVE  /\ j \in Nat
           /\ Sessions[j].rollupStart \in Nat /\ Sessions[j].rollupStart > 0
           /\ Sessions[j].rollupEnd \in Nat
           /\ Sessions[j].seqStart \in Nat /\ Sessions[j].seqStart > 0
           /\ Sessions[j].lookAhead \in Nat
<1>1. Sessions \in Seq(SessionParameters) BY SessionsAssumption
<1>2. Sessions[j] \in SessionParameters /\ j \in Nat
  BY <1>1, ElementOfSeq
<1> QED BY <1>2 DEF SessionParameters

(* No rollup number belongs to two sessions, so the canonical height of a  *)
(* number is the one its session maps it to.                               *)
LEMMA CanonicalHeightInSession ==
    ASSUME NEW j \in 1..Len(Sessions), NEW n \in Nat, Contains(j, n)
    PROVE  CanonicalHeight(n) = HeightAt(j, n)
<1>1. ASSUME NEW i \in 1..Len(Sessions), Contains(i, n) PROVE i = j
  <2>1. /\ i \in Nat /\ j \in Nat
        /\ Sessions[i].rollupEnd \in Nat /\ Sessions[i].rollupStart \in Nat
        /\ Sessions[j].rollupEnd \in Nat /\ Sessions[j].rollupStart \in Nat
    BY SessionTypes
  <2>2. CASE i < j
    BY <1>1, <2>1, <2>2, SessionsAssumption DEF Contains, HasStopHeight
  <2>3. CASE j < i
    BY <1>1, <2>1, <2>3, SessionsAssumption DEF Contains, HasStopHeight
  <2> QED BY <2>1, <2>2, <2>3
<1> QED BY <1>1 DEF CanonicalHeight

(* The height expected after block n, if it is not past the stop height,   *)
(* is the canonical height of block n + 1, and maps back to n + 1.         *)
LEMMA NextExpectedIsCanonical ==
    ASSUME NEW j \in 1..Len(Sessions), NEW n \in Nat,
           Sessions[j].rollupStart <= n + 1
    PROVE  /\ NextExpected(j, n) \in Nat
           /\ NumberAt(j, NextExpected(j, n)) = n + 1
           /\ ~PastStopHeight(j, NextExpected(j, n)) =>
                /\ Contains(j, n + 1)
                /\ NextExpected(j, n) = CanonicalHeight(n + 1)
<1>1. /\ Sessions[j].rollupEnd \in Nat /\ Sessions[j].rollupStart \in Nat
      /\ Sessions[j].seqStart \in Nat /\ Sessions[j].seqStart > 0
      /\ Sessions[j].rollupEnd = 0 \/ Sessions[j].rollupEnd >= Sessions[j].rollupStart
  BY SessionTypes, SessionsAssumption
<1>2. NextExpected(j, n) = HeightAt(j, n + 1) /\ NextExpected(j, n) \in Nat
  BY SMTT(30), <1>1 DEF NextExpected, HeightAt
<1>3. NumberAt(j, NextExpected(j, n)) = n + 1
  BY <1>1, <1>2 DEF NumberAt, HeightAt
<1>4. ASSUME ~PastStopHeight(j, NextExpected(j, n)) PROVE Contains(j, n + 1)
  BY <1>1, <1>4 DEF PastStopHeight, HasStopHeight, Contains, NextExpected, HeightAt
<1> QED BY <1>2, <1>3, <1>4, CanonicalHeightInSession

(* The expected heights follow the numbers of the commitments.             *)
LEMMA NextExpectedMonotone ==
    ASSUME NEW j \in 1..Len(Sessions), NEW n \in Nat, NEW m \in Nat
    PROVE  /\ NextExpected(j, n) \in Int
           /\ NextExpected(j, n + 1) = NextExpected(j, n) + 1
           /\ n <= m => NextExpected(j, n) <= NextExpected(j, m)
<1> DEFINE a == Sessions[j].seqStart
           b == Sessions[j].rollupStart
<1>1. a \in Nat /\ b \in Nat
  BY SessionTypes
<1>2. /\ NextExpected(j, n) = ((a + n) - b) + 1
      /\ NextExpected(j, n + 1) = ((a + (n + 1)) - b) + 1
      /\ NextExpected(j, m) = ((a + m) - b) + 1
  BY DEF NextExpected, HeightAt
<1> HIDE DEF a, b
<1>3. NextExpected(j, n) \in Int
  BY <1>1, <1>2
<1>4. NextExpected(j, n + 1) = NextExpected(j, n) + 1
  BY <1>1, <1>2
<1>5. n <= m => NextExpected(j, n) <= NextExpected(j, m)
  BY <1>1, <1>2
<1> QED BY <1>3, <1>4, <1>5

(* Executing the next canonical height on a canonical block.               *)
LEMMA ExtendCanonical ==
    ASSUME NEW b \in Block, NEW h \in Nat, Canonical(b),
           h = CanonicalHeight(b.number + 1)
    PROVE  LET c == [number |-> b.number + 1, hash |-> Append(b.hash, h)]
           IN  c \in Block /\ Canonical(c)
<1> DEFINE c == [number |-> b.number + 1, hash |-> Append(b.hash, h)]
<1>1. b.hash \in Seq(Nat) /\ b.number \in Nat BY DEF Block
<1>2. /\ c.hash \in Seq(Nat) /\ Len(c.hash) = Len(b.hash) + 1
      /\ \A i \in 1..Len(b.hash) : c.hash[i] = b.hash[i]
      /\ c.hash[Len(b.hash) + 1] = h
  BY <1>1, AppendProperties
<1>3. c \in Block BY <1>1, <1>2 DEF Block
<1>4. Canonical(c) BY <1>1, <1>2 DEF Canonical
<1> QED BY <1>3, <1>4

(* The prefix of a canonical block's chain ends in a canonical block.      *)
LEMMA PrefixCanonical ==
    ASSUME NEW b \in Block, Canonical(b), NEW n \in Nat, n <= b.number
    PROVE  LET c == [number |-> n, hash |-> SubSeq(b.hash, 1, n)]
           IN  c \in Block /\ Canonical(c)
<1> DEFINE c == [number |-> n, hash |-> SubSeq(b.hash, 1, n)]
<1>1. b.hash \in Seq(Nat) /\ b.number \in Nat BY DEF Block
<1>2. Len(b.hash) = b.number BY DEF Canonical
<1>3. /\ c.hash \in Seq(Nat) /\ Len(c.hash) = n
      /\ \A i \in 1..n : c.hash[i] = b.hash[i]
  BY <1>1, <1>2, SubSeqProperties
<1>4. c \in Block BY <1>3 DEF Block
<1>5. Canonical(c) BY <1>1, <1>2, <1>3 DEF Canonical
<1> QED BY <1>4, <1>5

(* A canonical block is determined by its number.                          *)
LEMMA CanonicalUnique ==
    ASSUME NEW b \in Block, NEW c \in Block, Canonical(b), Canonical(c),
           b.number = c.number
    PROVE  b = c
<1>1. b.hash \in Seq(Nat) /\ c.hash \in Seq(Nat) BY DEF Block
<1>2. Len(b.hash) = Len(c.hash) BY DEF Canonical
<1>3. \A i \in 1..Len(b.hash) : b.hash[i] = c.hash[i] BY <1>2 DEF Canonical
<1>4. b.hash = c.hash BY <1>1, <1>2, <1>3, SeqEqual
<1> QED BY <1>4 DEF Block

(* The empty chain is canonical.                                           *)
LEMMA GenesisCanonical == Genesis \in Block /\ Canonical(Genesis)
BY DEF Genesis, Block, Canonical

-----------------------------------------------------------------------------
(* Each part of the invariant depends on a few variables only: StateInv    *)
(* on the tracked state and the commit level,                              *)
LEMMA StateFrame ==
    StateInv /\ UNCHANGED <<level, state>> => StateInv'
BY DEF StateInv, session, Canonical

(* FirmFeedInv on the firm channel, its reader and the block in progress,  *)
LEMMA FirmFeedFrame ==
    FirmFeedInv /\ UNCHANGED <<state, firmBlocks, firmReader, cur>> => FirmFeedInv'
BY DEF FirmFeedInv, FirmBase, NextFirm, session

(* SoftFeedInv on the soft channel, its reader and the block in progress,  *)
LEMMA SoftFeedFrame ==
    SoftFeedInv /\ UNCHANGED <<state, softBlocks, softReader, cur>> => SoftFeedInv'
BY DEF SoftFeedInv, SoftBase, NextSoft, session

(* LevelInv on the channels, readers and pending blocks,                   *)
LEMMA LevelFrame ==
    LevelInv /\ UNCHANGED <<level, firmBlocks, softBlocks, firmReader, softReader,
                            blocksPendingFinalization>> => LevelInv'
BY DEF LevelInv

(* CurInv on the block in progress and the tracked state,                  *)
LEMMA CurFrame ==
    CurInv /\ UNCHANGED <<level, state, pc, cur>> => CurInv'
BY DEF CurInv, NextFirm, NextSoft, session, ShouldExecuteFirmBlock, Canonical

(* PendingInv on the pending blocks, unless execute_firm takes one,        *)
LEMMA PendingFrame ==
    /\ PendingInv /\ UNCHANGED <<level, state, blocksPendingFinalization>>
    /\ cur'.update = cur.update \/ cur'.update # "OnlyFirm"
    => PendingInv'
BY DEF PendingInv, session, Canonical

(* RollupInv on the two commitment states and the update in flight.        *)
LEMMA RollupFrame ==
    RollupInv /\ UNCHANGED <<state, rollup, pc, cur>> => RollupInv'
BY DEF RollupInv, Commitments, Wanted

(* Once the executor has returned, only types, the rollup's chain and the  *)
(* reset of the channels matter.                                           *)
LEMMA ExitPreserves ==
    ASSUME IInv, \E r \in {"stopped", "denied", "error", "shutdown"} : Exit(r),
           UNCHANGED <<level, rollup, state, loopVars, envVars>>
    PROVE  IInv'
<1>1. TypeOK'
  BY GenesisCanonical DEF IInv, TypeOK, Exit, Idle, loopVars, envVars
<1>2. LevelInv' BY LevelFrame DEF IInv, loopVars, envVars
<1>3. ~Running' BY DEF Exit, Running
<1> QED BY <1>1, <1>2, <1>3 DEF IInv, Canonical

-----------------------------------------------------------------------------
(* Types at hand in every step of a running executor.                      *)
LEMMA RunningTypes ==
    ASSUME TypeOK, StateInv
    PROVE  /\ session \in 1..Len(Sessions) /\ session = state.session
           /\ state.firm \in Block /\ state.soft \in Block
           /\ state.firm.number \in Nat /\ state.soft.number \in Nat
           /\ firmBlocks \in Seq(Nat) /\ softBlocks \in Seq(Nat)
           /\ firmReader.next \in Nat /\ softReader.next \in Nat
           /\ NextFirm \in Int /\ NextSoft \in Int
           /\ FirmBase \in Int /\ SoftBase \in Int
<1>1. /\ state.session \in 1..Len(Sessions) /\ state.firm \in Block
      /\ state.soft \in Block /\ firmBlocks \in Seq(Nat) /\ softBlocks \in Seq(Nat)
      /\ firmReader.next \in Nat /\ softReader.next \in Nat
  BY DEF TypeOK, Reader
<1>2. state.firm.number \in Nat /\ state.soft.number \in Nat BY <1>1 DEF Block
<1>3. NextFirm \in Int /\ NextSoft \in Int
  <2>1. Sessions[state.session].seqStart \in Nat /\ Sessions[state.session].rollupStart \in Nat
    BY <1>1, SessionTypes
  <2> QED BY <1>2, <2>1 DEF NextFirm, NextSoft, session, NextExpected, HeightAt
<1>4. FirmBase \in Int /\ SoftBase \in Int BY <1>3 DEF FirmBase, SoftBase
<1> QED BY <1>1, <1>2, <1>3, <1>4 DEF session

(* FirmReaderSend extends the gap-free firm feed by one height.            *)
LEMMA FirmReaderSendPreserves ==
    ASSUME IInv, Running, FirmReaderSend PROVE IInv'
<1> USE DEF FirmReaderSend
<1>1. TypeOK /\ LevelInv /\ StateInv /\ FirmFeedInv BY DEF IInv
<1>2. /\ firmBlocks' \in Seq(Nat) /\ Len(firmBlocks') = Len(firmBlocks) + 1
      /\ \A i \in 1..Len(firmBlocks) : firmBlocks'[i] = firmBlocks[i]
      /\ firmBlocks'[Len(firmBlocks) + 1] = firmReader.next
      /\ Len(firmBlocks) \in Nat
  BY <1>1, RunningTypes, AppendProperties, LenProperties
<1>3. /\ firmReader' \in Reader
      /\ firmReader'.next = firmReader.next + 1 /\ firmReader'.task = "run"
  <2>1. firmReader \in Reader
    BY <1>1 DEF TypeOK
  <2>2. firmReader' = [firmReader EXCEPT !.next = firmReader.next + 1] /\ firmReader.task = "run"
    OBVIOUS
  <2> HIDE DEF FirmReaderSend
  <2> QED BY <2>1, <2>2 DEF Reader
<1>4. TypeOK' BY <1>1, <1>2, <1>3 DEF TypeOK
<1>5. FirmFeedInv'
  <2>1. FirmBase' = FirmBase /\ session' = session
    BY DEF FirmBase, NextFirm, session
  <2>2. firmReader.next = FirmBase + Len(firmBlocks) BY <1>1 DEF FirmFeedInv
  <2>3. ASSUME NEW i \in 1..Len(firmBlocks')
        PROVE /\ firmBlocks'[i] = FirmBase' + i - 1
              /\ firmBlocks'[i] <= LastHeight
              /\ ~PastStopHeight(session', firmBlocks'[i])
    <3>1. CASE i \in 1..Len(firmBlocks)
      BY <1>1, <1>2, <2>1, <3>1 DEF FirmFeedInv
    <3>2. CASE i = Len(firmBlocks) + 1
      BY <1>1, <1>2, <2>1, <2>2, <3>2, RunningTypes
    <3> QED BY <1>2, <3>1, <3>2
  <2>4. firmReader'.next = FirmBase' + Len(firmBlocks')
    BY <1>1, <1>2, <1>3, <2>1, <2>2, RunningTypes
  <2> QED BY <2>3, <2>4 DEF FirmFeedInv
<1>6. LevelInv' BY <1>1 DEF LevelInv, NoReader
<1> QED
  BY <1>4, <1>5, <1>6, StateFrame, SoftFeedFrame, CurFrame, PendingFrame,
     RollupFrame DEF IInv, Running, Canonical

(* SoftReaderSend leaves no gap above the expected soft height.            *)
LEMMA SoftReaderSendPreserves ==
    ASSUME IInv, Running, SoftReaderSend PROVE IInv'
<1> USE DEF SoftReaderSend
<1>1. TypeOK /\ LevelInv /\ StateInv /\ SoftFeedInv BY DEF IInv
<1>2. /\ softBlocks' \in Seq(Nat) /\ Len(softBlocks') = Len(softBlocks) + 1
      /\ \A i \in 1..Len(softBlocks) : softBlocks'[i] = softBlocks[i]
      /\ softBlocks'[Len(softBlocks) + 1] = softReader.next
      /\ Len(softBlocks) \in Nat
  BY <1>1, RunningTypes, AppendProperties, LenProperties
<1>3. /\ softReader' \in Reader
      /\ softReader'.next = softReader.next + 1 \/ softReader'.next <= NextSoft
  <2>1. softReader \in Reader /\ softReader.next \in Nat /\ NextSoft \in Int
    BY <1>1, RunningTypes DEF TypeOK
  <2>2. PICK h \in {softReader.next + 1} \cup softReader.next + 1 .. NextSoft :
               softReader' = [softReader EXCEPT !.next = h]
    OBVIOUS
  <2> HIDE DEF SoftReaderSend
  <2>3. h \in Nat /\ (h = softReader.next + 1 \/ h <= NextSoft) BY <2>1
  <2> QED BY <2>1, <2>2, <2>3 DEF Reader
<1>4. TypeOK' BY <1>1, <1>2, <1>3 DEF TypeOK
<1>5. SoftFeedInv'
  <2>1. SoftBase' = SoftBase /\ session' = session /\ NextSoft <= SoftBase
    BY <1>1, RunningTypes DEF SoftBase, NextSoft, session
  <2>2. \/ softReader.next <= SoftBase
        \/ /\ Len(softBlocks) > 0
           /\ softReader.next = softBlocks[Len(softBlocks)] + 1
    BY <1>1 DEF SoftFeedInv
  <2>3. ASSUME NEW i \in 1..Len(softBlocks')
        PROVE /\ \/ softBlocks'[i] <= SoftBase'
                 \/ i > 1 /\ softBlocks'[i] = softBlocks'[i-1] + 1
              /\ ~PastStopHeight(session', softBlocks'[i])
    <3>1. CASE i \in 1..Len(softBlocks)
      BY <1>1, <1>2, <2>1, <3>1 DEF SoftFeedInv
    <3>2. CASE i = Len(softBlocks) + 1
      BY <1>1, <1>2, <2>1, <2>2, <3>2
    <3> QED BY <1>2, <3>1, <3>2
  <2>4. \/ softReader'.next <= SoftBase'
        \/ /\ Len(softBlocks') > 0
           /\ softReader'.next = softBlocks'[Len(softBlocks')] + 1
    <3>1. CASE softReader'.next = softReader.next + 1 BY <1>2, <3>1
    <3>2. CASE softReader'.next <= NextSoft
      <4>1. softReader'.next \in Nat /\ NextSoft \in Int /\ SoftBase \in Int
        BY <1>1, <1>3, RunningTypes DEF Reader
      <4> QED BY <2>1, <3>2, <4>1
    <3> QED BY <1>3, <3>1, <3>2
  <2> QED BY <2>3, <2>4 DEF SoftFeedInv
<1>6. LevelInv' BY <1>1 DEF LevelInv, NoReader
<1> QED
  BY <1>4, <1>5, <1>6, StateFrame, FirmFeedFrame, CurFrame, PendingFrame,
     RollupFrame DEF IInv, Running, Canonical

(* SoftReaderSkip never skips past the expected soft height.               *)
LEMMA SoftReaderSkipPreserves ==
    ASSUME IInv, Running, SoftReaderSkip PROVE IInv'
<1> USE DEF SoftReaderSkip, loopVars
<1>1. TypeOK /\ LevelInv /\ StateInv /\ SoftFeedInv BY DEF IInv
<1>2. softReader' \in Reader /\ softReader'.next <= NextSoft
  <2>1. softReader \in Reader /\ softReader.next \in Nat /\ NextSoft \in Int
    BY <1>1, RunningTypes DEF TypeOK
  <2>2. PICK h \in softReader.next + 1 .. NextSoft :
               softReader' = [softReader EXCEPT !.next = h]
    OBVIOUS
  <2> HIDE DEF SoftReaderSkip
  <2>3. h \in Nat /\ h <= NextSoft BY <2>1
  <2> QED BY <2>1, <2>2, <2>3 DEF Reader
<1>3. TypeOK' BY <1>1, <1>2 DEF TypeOK
<1>4. SoftFeedInv'
  <2>1. /\ SoftBase' = SoftBase /\ session' = session /\ NextSoft <= SoftBase
        /\ softReader'.next \in Nat /\ NextSoft \in Int /\ SoftBase \in Int
    BY <1>1, <1>2, RunningTypes DEF SoftBase, NextSoft, session, Reader
  <2>2. softReader'.next <= SoftBase' BY <1>2, <2>1
  <2> QED BY <1>1, <2>1, <2>2 DEF SoftFeedInv
<1>5. LevelInv' BY <1>1 DEF LevelInv, NoReader
<1> QED
  BY <1>3, <1>4, <1>5, StateFrame, FirmFeedFrame, CurFrame, PendingFrame,
     RollupFrame DEF IInv, Running, Canonical

(* A reader that has returned keeps its blocks in the channel.             *)
LEMMA ReaderExitPreserves ==
    ASSUME IInv, Running,
           FirmReaderReturns \/ SoftReaderReturns \/ FirmReaderFails \/ SoftReaderFails
    PROVE  IInv'
<1>1. TypeOK /\ LevelInv /\ FirmFeedInv /\ SoftFeedInv BY DEF IInv
<1>2. UNCHANGED <<level, rollup, state, loopVars, pc, cur, result>>
  BY DEF FirmReaderReturns, SoftReaderReturns, FirmReaderFails, SoftReaderFails
<1>3. /\ firmReader' = firmReader
         \/ \E t \in {"ok", "err"} : /\ firmReader.task = "run"
                                     /\ firmReader' = [firmReader EXCEPT !.task = t]
      /\ softReader' = softReader
         \/ \E t \in {"ok", "err"} : /\ softReader.task = "run"
                                     /\ softReader' = [softReader EXCEPT !.task = t]
  BY DEF FirmReaderReturns, SoftReaderReturns, FirmReaderFails, SoftReaderFails,
         ReaderReturns
<1>4. /\ firmReader' \in Reader /\ softReader' \in Reader
      /\ firmReader' = firmReader \/ (firmReader.task = "run" /\ firmReader'.task # "run")
      /\ softReader' = softReader \/ (softReader.task = "run" /\ softReader'.task # "run")
  BY <1>1, <1>3 DEF TypeOK, Reader
<1>5. TypeOK' BY <1>1, <1>2, <1>4 DEF TypeOK, loopVars
<1>6. LevelInv' BY <1>1, <1>2, <1>4 DEF LevelInv, NoReader, loopVars
<1>7. FirmFeedInv' BY <1>1, <1>2, <1>4 DEF FirmFeedInv, FirmBase, NextFirm, session, loopVars
<1>8. SoftFeedInv' BY <1>1, <1>2, <1>4 DEF SoftFeedInv, SoftBase, NextSoft, session, loopVars
<1> QED
  BY <1>2, <1>5, <1>6, <1>7, <1>8, StateFrame, CurFrame, PendingFrame, RollupFrame
  DEF IInv, Running, Canonical, loopVars

-----------------------------------------------------------------------------
(* What taking the head off a channel leaves.                              *)
LEMMA TailFacts ==
    ASSUME NEW s \in Seq(Nat), s # << >>
    PROVE  /\ Tail(s) \in Seq(Nat) /\ Len(s) \in Nat /\ Len(s) > 0
           /\ Len(Tail(s)) = Len(s) - 1 /\ Head(s) = s[1] /\ Head(s) \in Nat
           /\ \A i \in 1..Len(Tail(s)) : Tail(s)[i] = s[i+1]
BY HeadTailProperties, EmptySeq, LenProperties, ElementOfSeq

(* PollFirm, with execute_firm up to its first await.                      *)
LEMMA PollFirmPreserves ==
    ASSUME IInv, PollFirm PROVE IInv'
<1> USE DEF PollFirm, envVars
<1>0. Running BY DEF Running
<1>1. /\ TypeOK /\ LevelInv /\ StateInv /\ FirmFeedInv /\ SoftFeedInv /\ CurInv
      /\ PendingInv /\ RollupInv
  BY <1>0 DEF IInv
<1>2. cur = Idle /\ cur.update = "none" BY <1>1 DEF CurInv, Idle
<1>3. Commitments(rollup) = Commitments(state) BY <1>1 DEF RollupInv
<1>4. FirmBase = NextFirm /\ SoftBase = NextSoft BY <1>2 DEF FirmBase, SoftBase
<1>5. NextFirm' = NextFirm /\ NextSoft' = NextSoft /\ session' = session
  BY DEF NextFirm, NextSoft, session
<1>6. CASE firmBlocks = << >>
  <2>1. pc' = "soft" /\ UNCHANGED <<cur, result, firmBlocks, blocksPendingFinalization>>
    BY <1>6
  <2>2. TypeOK' BY <1>1, <2>1 DEF TypeOK
  <2>3. CurInv' BY <1>1, <1>2, <2>1 DEF CurInv, Idle, Updates
  <2>4. RollupInv' BY <1>3, <2>1 DEF RollupInv, Commitments
  <2> QED BY <1>1, <2>1, <2>2, <2>3, <2>4, StateFrame, FirmFeedFrame, SoftFeedFrame,
             PendingFrame, LevelFrame DEF IInv, Canonical
<1>7. CASE firmBlocks # << >>
  <2> DEFINE h == Head(firmBlocks)
             n == NumberAt(session, h)
  <2>1. firmBlocks' = Tail(firmBlocks) /\ ExecuteFirm(h) BY <1>7
  <2> HIDE DEF PollFirm
  <2>2. /\ firmBlocks' \in Seq(Nat) /\ Len(firmBlocks) \in Nat /\ Len(firmBlocks) > 0
        /\ Len(firmBlocks') = Len(firmBlocks) - 1
        /\ h = firmBlocks[1] /\ h \in Nat
        /\ \A i \in 1..Len(firmBlocks') : firmBlocks'[i] = firmBlocks[i+1]
    BY <1>1, <1>7, <2>1, TailFacts DEF TypeOK
  <2>3. IsWithFirm(level) BY <1>1, <1>7 DEF LevelInv
  <2>4. UNCHANGED <<level, rollup, state, softBlocks, firmReader, softReader,
                    readersCancelled>>
    BY DEF PollFirm
  <2>5. LevelInv'
    <3>1. DOMAIN blocksPendingFinalization' \subseteq DOMAIN blocksPendingFinalization
      BY <2>1 DEF ExecuteFirm
    <3> QED BY <1>1, <2>3, <2>4, <3>1 DEF LevelInv
  <2>6. ASSUME Exit("error"), UNCHANGED blocksPendingFinalization PROVE IInv'
    <3>1. TypeOK' BY <1>1, <2>2, <2>4, <2>6, GenesisCanonical DEF TypeOK, Exit, Idle
    <3>2. ~Running' BY <2>6 DEF Exit, Running
    <3> QED BY <2>4, <2>5, <3>1, <3>2 DEF IInv, Canonical
  <2>7. h = NextFirm /\ h <= LastHeight /\ ~PastStopHeight(session, h)
    BY <1>1, <1>4, <2>2, RunningTypes DEF FirmFeedInv
  <2>number. n = state.firm.number + 1
    <3>1. Sessions[session].rollupStart <= state.firm.number + 1
      BY <1>1, <2>3 DEF StateInv
    <3> QED BY <1>1, <2>7, <3>1, RunningTypes, NextExpectedIsCanonical DEF NextFirm
  <2>8. ASSUME cur'.update \in {"OnlyFirm", "ToSame"} PROVE FirmFeedInv' /\ SoftFeedInv'
    <3>1. FirmBase' = NextFirm + 1 /\ SoftBase' = NextSoft
      BY <1>5, <2>8 DEF FirmBase, SoftBase
    <3>2. ASSUME NEW i \in 1..Len(firmBlocks')
          PROVE /\ firmBlocks'[i] = FirmBase' + i - 1
                /\ firmBlocks'[i] <= LastHeight
                /\ ~PastStopHeight(session', firmBlocks'[i])
      <4>1. i + 1 \in 1..Len(firmBlocks) BY <2>2
      <4>2. firmBlocks[i+1] = NextFirm + (i + 1) - 1 BY <1>1, <1>4, <4>1 DEF FirmFeedInv
      <4>3. firmBlocks'[i] = firmBlocks[i+1] /\ NextFirm \in Int /\ i \in Int
        BY <1>1, <2>2, RunningTypes
      <4>4. firmBlocks'[i] = FirmBase' + i - 1 BY <3>1, <4>2, <4>3
      <4>5. firmBlocks[i+1] <= LastHeight /\ ~PastStopHeight(session, firmBlocks[i+1])
        BY <1>1, <4>1 DEF FirmFeedInv
      <4> QED BY <1>5, <4>3, <4>4, <4>5
    <3>3. firmReader'.task = "run" => firmReader'.next = FirmBase' + Len(firmBlocks')
      BY <1>1, <1>4, <2>2, <2>4, <3>1, RunningTypes DEF FirmFeedInv
    <3>4. SoftFeedInv' BY <1>1, <1>4, <1>5, <2>4, <3>1 DEF SoftFeedInv
    <3> QED BY <3>2, <3>3, <3>4 DEF FirmFeedInv
  <2>9. ASSUME pc' \in {"execute", "fetch", "update"} PROVE RollupInv'
    BY <1>3, <2>4, <2>9 DEF RollupInv, Commitments
  <2>10. CASE h # NextFirm \/ ~TryMapHeight(session, h)
    BY <2>1, <2>6, <2>10 DEF ExecuteFirm
  <2>11. ASSUME ShouldExecuteFirmBlock, pc' = "execute", UNCHANGED result,
                cur' = [update |-> "ToSame", height |-> h, block |-> Genesis],
                UNCHANGED blocksPendingFinalization
         PROVE  IInv'
    <3>1. TypeOK' BY <1>1, <2>2, <2>4, <2>11, GenesisCanonical DEF TypeOK, Updates
    <3>2. CurInv'
      BY <1>5, <2>3, <2>4, <2>7, <2>11 DEF CurInv, Updates, ShouldExecuteFirmBlock
    <3> QED BY <1>1, <2>4, <2>5, <2>8, <2>9, <2>11, <3>1, <3>2, StateFrame, PendingFrame
        DEF IInv, Canonical
  <2>12. ASSUME ~ShouldExecuteFirmBlock PROVE state.firm.number < state.soft.number
    <3>1. level = "SoftAndFirm" /\ NextFirm # NextSoft
      BY <2>3, <2>12 DEF ShouldExecuteFirmBlock, IsWithFirm
    <3>2. state.firm.number # state.soft.number BY <3>1 DEF NextFirm, NextSoft
    <3> QED BY <1>1, <3>2, RunningTypes DEF StateInv
  <2>13. ASSUME ~ShouldExecuteFirmBlock, n \in DOMAIN blocksPendingFinalization,
                pc' = "update", UNCHANGED result,
                cur' = [update |-> "OnlyFirm", height |-> h,
                        block |-> blocksPendingFinalization[n]],
                blocksPendingFinalization' =
                    [m \in DOMAIN blocksPendingFinalization \ {n} |->
                        blocksPendingFinalization[m]]
         PROVE  IInv'
    <3>1. blocksPendingFinalization[n] \in Block BY <1>1, <2>13 DEF TypeOK
    <3>2. TypeOK' BY <1>1, <2>2, <2>4, <2>13, <3>1 DEF TypeOK, Updates
    <3>3. PendingInv' BY <1>1, <1>5, <2>4, <2>number, <2>13 DEF PendingInv, Canonical
    <3>4. Canonical(blocksPendingFinalization[n]) /\ blocksPendingFinalization[n].number = n
      BY <1>1, <2>13 DEF PendingInv
    <3>5. CurInv'
      BY <1>5, <2>3, <2>4, <2>7, <2>12, <2>13, <3>4 DEF CurInv, Updates, Canonical
    <3> QED BY <1>1, <2>4, <2>5, <2>8, <2>9, <2>13, <3>2, <3>3, <3>5, StateFrame
        DEF IInv, Canonical
  <2>14. ASSUME ~ShouldExecuteFirmBlock, n \notin DOMAIN blocksPendingFinalization,
                pc' = "fetch", UNCHANGED result,
                cur' = [update |-> "OnlyFirm", height |-> h, block |-> Genesis],
                UNCHANGED blocksPendingFinalization
         PROVE  IInv'
    <3>1. TypeOK' BY <1>1, <2>2, <2>4, <2>14, GenesisCanonical DEF TypeOK, Updates
    <3>2. CurInv' BY <1>5, <2>3, <2>4, <2>7, <2>12, <2>14 DEF CurInv, Updates
    <3>3. PendingInv' BY <1>1, <1>5, <2>4, <2>number, <2>14 DEF PendingInv, Canonical
    <3> QED BY <1>1, <2>4, <2>5, <2>8, <2>9, <2>14, <3>1, <3>2, <3>3, StateFrame
        DEF IInv, Canonical
  <2> QED BY <2>1, <2>10, <2>11, <2>13, <2>14 DEF ExecuteFirm
<1> QED BY <1>6, <1>7

(* PollSoft, with execute_soft up to its first await.                      *)
LEMMA PollSoftPreserves ==
    ASSUME IInv, PollSoft PROVE IInv'
<1> USE DEF PollSoft, envVars
<1>0. Running BY DEF Running
<1>1. /\ TypeOK /\ LevelInv /\ StateInv /\ FirmFeedInv /\ SoftFeedInv /\ CurInv
      /\ PendingInv /\ RollupInv
  BY <1>0 DEF IInv
<1>2. cur = Idle /\ cur.update = "none" BY <1>1 DEF CurInv, Idle
<1>3. Commitments(rollup) = Commitments(state) BY <1>1 DEF RollupInv
<1>4. FirmBase = NextFirm /\ SoftBase = NextSoft BY <1>2 DEF FirmBase, SoftBase
<1>5. NextFirm' = NextFirm /\ NextSoft' = NextSoft /\ session' = session
  BY DEF NextFirm, NextSoft, session
<1>6. CASE softBlocks = << >> \/ IsSpreadTooLarge
  <2>1. pc' = "join" /\ UNCHANGED <<cur, result, softBlocks>>
    BY <1>6
  <2>2. TypeOK' BY <1>1, <2>1 DEF TypeOK
  <2>3. CurInv' BY <1>1, <1>2, <2>1 DEF CurInv, Idle, Updates
  <2>4. RollupInv' BY <1>3, <2>1 DEF RollupInv, Commitments
  <2> QED BY <1>1, <2>1, <2>2, <2>3, <2>4, StateFrame, FirmFeedFrame, SoftFeedFrame,
             PendingFrame, LevelFrame DEF IInv, Canonical
<1>7. CASE softBlocks # << >> /\ ~IsSpreadTooLarge
  <2> DEFINE h == Head(softBlocks)
  <2>1. softBlocks' = Tail(softBlocks) /\ ExecuteSoft(h) BY <1>7
  <2>2. UNCHANGED <<level, rollup, state, blocksPendingFinalization, firmBlocks,
                    firmReader, softReader, readersCancelled>>
    BY DEF PollSoft
  <2> HIDE DEF PollSoft
  <2>3. /\ softBlocks' \in Seq(Nat) /\ Len(softBlocks) \in Nat /\ Len(softBlocks) > 0
        /\ Len(softBlocks') = Len(softBlocks) - 1
        /\ h = softBlocks[1] /\ h \in Nat
        /\ \A i \in 1..Len(softBlocks') : softBlocks'[i] = softBlocks[i+1]
    BY <1>1, <1>7, <2>1, TailFacts DEF TypeOK
  <2>4. IsWithSoft(level) BY <1>1, <1>7 DEF LevelInv
  <2>5. LevelInv' BY <1>1, <2>2, <2>4 DEF LevelInv
  <2>6. h <= NextSoft /\ ~PastStopHeight(session, h) /\ NextSoft \in Int /\ NextFirm \in Int
    BY <1>1, <1>4, <2>3, RunningTypes DEF SoftFeedInv
  (* the rest of the channel stays gap-free once h is behind the base *)
  <2>7. ASSUME NEW b \in Int, b >= NextSoft, b > h, SoftBase' = b PROVE SoftFeedInv'
    <3>1. ASSUME NEW i \in 1..Len(softBlocks')
          PROVE /\ \/ softBlocks'[i] <= SoftBase'
                   \/ i > 1 /\ softBlocks'[i] = softBlocks'[i-1] + 1
                /\ ~PastStopHeight(session', softBlocks'[i])
      <4>1. i + 1 \in 1..Len(softBlocks) /\ i + 1 > 1 /\ (i + 1) - 1 = i BY <2>3
      <4>2. softBlocks'[i] = softBlocks[i+1] BY <2>3
      <4>3. /\ softBlocks[i+1] <= NextSoft \/ softBlocks[i+1] = softBlocks[i] + 1
            /\ ~PastStopHeight(session, softBlocks[i+1])
        BY <1>1, <1>4, <4>1 DEF SoftFeedInv
      <4>4. softBlocks[i+1] \in Nat /\ softBlocks[i] \in Nat
        <5>1. softBlocks \in Seq(Nat) /\ i \in 1..Len(softBlocks)
          BY <1>1, <2>3, RunningTypes
        <5> QED BY <4>1, <5>1, ElementOfSeq
      <4>5. CASE softBlocks[i+1] <= NextSoft BY <1>5, <2>6, <2>7, <4>2, <4>3, <4>4, <4>5
      <4>6. CASE softBlocks[i+1] = softBlocks[i] + 1 /\ i = 1
        BY <1>5, <2>3, <2>6, <2>7, <4>2, <4>3, <4>4, <4>6
      <4>7. CASE softBlocks[i+1] = softBlocks[i] + 1 /\ i > 1
        <5>1. i - 1 \in 1..Len(softBlocks') BY <2>3, <4>7
        <5>2. softBlocks'[i-1] = softBlocks[i] BY <2>3, <5>1
        <5> QED BY <1>5, <4>2, <4>3, <4>7, <5>2
      <4> QED BY <4>3, <4>5, <4>6, <4>7
    <3>2. ASSUME softReader'.task = "run"
          PROVE \/ softReader'.next <= SoftBase'
                \/ /\ Len(softBlocks') > 0
                   /\ softReader'.next = softBlocks'[Len(softBlocks')] + 1
      <4>1. \/ softReader.next <= NextSoft
            \/ softReader.next = softBlocks[Len(softBlocks)] + 1
        BY <1>1, <1>4, <2>2, <3>2 DEF SoftFeedInv
      <4>2. softReader.next \in Nat BY <1>1, RunningTypes
      <4>3. CASE softReader.next <= NextSoft BY <2>2, <2>6, <2>7, <4>2, <4>3
      <4>4. CASE softReader.next = softBlocks[Len(softBlocks)] + 1 /\ Len(softBlocks) = 1
        BY <2>2, <2>3, <2>6, <2>7, <4>2, <4>4
      <4>5. CASE softReader.next = softBlocks[Len(softBlocks)] + 1 /\ Len(softBlocks) # 1
        <5>1. Len(softBlocks') \in 1..Len(softBlocks') /\ Len(softBlocks') + 1 = Len(softBlocks)
          BY <2>3, <4>5
        <5>2. softBlocks'[Len(softBlocks')] = softBlocks[Len(softBlocks)] BY <2>3, <5>1
        <5> QED BY <2>2, <2>3, <4>5, <5>1, <5>2
      <4> QED BY <4>1, <4>3, <4>4, <4>5
    <3> QED BY <3>1, <3>2 DEF SoftFeedInv
  <2>8. CASE h < NextSoft
    <3>1. pc' = "firm" /\ UNCHANGED <<cur, result>> BY <2>1, <2>3, <2>6, <2>8 DEF ExecuteSoft
    <3>2. TypeOK' BY <1>1, <2>2, <2>3, <3>1 DEF TypeOK
    <3>3. CurInv' BY <1>1, <1>2, <3>1 DEF CurInv, Idle, Updates
    <3>4. SoftFeedInv' BY <1>2, <1>5, <2>6, <2>7, <2>8, <3>1 DEF SoftBase
    <3>5. RollupInv' BY <1>3, <2>2, <3>1 DEF RollupInv, Commitments
    <3> QED BY <1>1, <2>2, <2>5, <3>1, <3>2, <3>3, <3>4, <3>5, StateFrame, FirmFeedFrame,
               PendingFrame DEF IInv, Canonical
  <2>9. CASE h = NextSoft /\ ~TryMapHeight(session, h)
    <3>1. Exit("error") BY <2>1, <2>6, <2>9 DEF ExecuteSoft
    <3>2. TypeOK' BY <1>1, <2>2, <2>3, <3>1, GenesisCanonical DEF TypeOK, Exit, Idle
    <3>3. ~Running' BY <3>1 DEF Exit, Running
    <3> QED BY <2>2, <2>5, <3>2, <3>3 DEF IInv, Canonical
  <2>10. CASE h = NextSoft /\ TryMapHeight(session, h)
    <3>1. /\ pc' = "execute" /\ UNCHANGED result
          /\ cur' = [update |-> "OnlySoft", height |-> h, block |-> Genesis]
      BY <2>1, <2>6, <2>10 DEF ExecuteSoft
    <3>2. TypeOK' BY <1>1, <2>2, <2>3, <3>1, GenesisCanonical DEF TypeOK, Updates
    <3>3. SoftFeedInv'
      <4>1. SoftBase' = NextSoft + 1 BY <1>5, <3>1 DEF SoftBase
      <4> QED BY <2>6, <2>7, <2>10, <4>1
    <3>4. FirmFeedInv'
      <4>1. FirmBase' = FirmBase BY <1>4, <1>5, <3>1 DEF FirmBase
      <4> QED BY <1>1, <1>5, <2>2, <4>1 DEF FirmFeedInv
    <3>5. IsWithFirm(level) =>
             state.soft.number < state.firm.number + Sessions[session].lookAhead
      <4>1. SUFFICES ASSUME IsWithFirm(level)
                     PROVE state.soft.number < state.firm.number + Sessions[session].lookAhead
        OBVIOUS
      <4>2. /\ state.soft.number \in Nat /\ state.firm.number \in Nat
            /\ session \in 1..Len(Sessions) /\ state.firm.number <= state.soft.number
        BY <1>1, RunningTypes DEF StateInv
      <4>3. /\ Sessions[session].lookAhead \in Nat /\ Sessions[session].seqStart \in Nat
            /\ Sessions[session].rollupStart \in Nat
        BY <4>2, SessionTypes
      <4>4. NextSoft - NextFirm = state.soft.number - state.firm.number /\ NextSoft >= NextFirm
        BY <4>2, <4>3 DEF NextSoft, NextFirm, NextExpected, HeightAt
      <4>5. ~(NextSoft - NextFirm >= Sessions[session].lookAhead)
        BY <1>7, <4>1, <4>4 DEF IsSpreadTooLarge
      <4> QED BY <4>2, <4>3, <4>4, <4>5
    <3>6. CurInv'
      BY <1>5, <2>2, <2>4, <2>6, <2>10, <3>1, <3>5 DEF CurInv, Updates
    <3>7. RollupInv' BY <1>3, <2>2, <3>1 DEF RollupInv, Commitments
    <3>8. cur'.update # "OnlyFirm" BY <3>1
    <3> QED BY <1>1, <2>2, <2>5, <3>2, <3>3, <3>4, <3>6, <3>7, <3>8, StateFrame, PendingFrame
        DEF IInv, Canonical
  <2> QED BY <2>3, <2>6, <2>8, <2>9, <2>10
<1> QED BY <1>6, <1>7

(* handle_task_exit leaves commitments and channels alone.                 *)
LEMMA JoinPreserves ==
    ASSUME IInv, JoinFirmReader \/ JoinSoftReader \/ JoinNothing PROVE IInv'
<1>0. pc = "join" BY DEF JoinFirmReader, JoinSoftReader, JoinNothing
<1>1. /\ TypeOK /\ LevelInv /\ StateInv /\ FirmFeedInv /\ SoftFeedInv /\ CurInv
      /\ PendingInv /\ RollupInv
  BY <1>0 DEF IInv, Running
<1>2. cur = Idle BY <1>0, <1>1 DEF CurInv
<1>3. /\ UNCHANGED <<level, rollup, state, blocksPendingFinalization, firmBlocks, softBlocks>>
      /\ readersCancelled' \in BOOLEAN
      /\ firmReader' \in {firmReader, NoReader} /\ softReader' \in {softReader, NoReader}
      /\ \/ pc' = "firm" /\ UNCHANGED <<cur, result>>
         \/ pc' = "exited" /\ cur' = Idle /\ result' \in {"error", "stopped"}
  BY <1>1 DEF JoinFirmReader, JoinSoftReader, JoinNothing, Exit, loopVars, envVars, TypeOK
<1>4. NoReader \in Reader /\ NoReader.task # "run" BY DEF Reader, NoReader
<1>5. TypeOK' BY <1>1, <1>3, <1>4, GenesisCanonical DEF TypeOK, Idle
<1>6. LevelInv' BY <1>1, <1>3 DEF LevelInv
<1>7. CASE pc' = "exited" BY <1>3, <1>5, <1>6, <1>7 DEF IInv, Running, Canonical
<1>8. CASE pc' = "firm" /\ UNCHANGED <<cur, result>>
  <2>1. FirmFeedInv' BY <1>1, <1>3, <1>4, <1>8 DEF FirmFeedInv, FirmBase, NextFirm, session
  <2>2. SoftFeedInv' BY <1>1, <1>3, <1>4, <1>8 DEF SoftFeedInv, SoftBase, NextSoft, session
  <2>3. CurInv' BY <1>2, <1>8 DEF CurInv, Idle, Updates
  <2>4. RollupInv' BY <1>0, <1>1, <1>3, <1>8 DEF RollupInv, Commitments
  <2>5. cur'.update = cur.update BY <1>8
  <2> QED BY <1>1, <1>3, <1>5, <1>6, <2>1, <2>2, <2>3, <2>4, <2>5, StateFrame, PendingFrame
      DEF IInv, Canonical
<1> QED BY <1>3, <1>7, <1>8

-----------------------------------------------------------------------------
(* The RPCs *)

(* What update_commitment_state asks for is one canonical block further.   *)
LEMMA HeightFacts ==
    ASSUME TypeOK, StateInv, CurInv,
           pc \in {"execute", "fetch", "update", "apply"}
    PROVE  /\ cur.update \in Updates
           /\ cur.update = "OnlySoft" =>
                /\ cur.height = CanonicalHeight(state.soft.number + 1)
                /\ NumberAt(session, cur.height) = state.soft.number + 1
                /\ Contains(session, state.soft.number + 1)
           /\ cur.update # "OnlySoft" =>
                /\ cur.height = CanonicalHeight(state.firm.number + 1)
                /\ NumberAt(session, cur.height) = state.firm.number + 1
                /\ Contains(session, state.firm.number + 1)
<1>1. cur.update \in Updates /\ ~PastStopHeight(session, cur.height) BY DEF CurInv
<1>2. /\ session \in 1..Len(Sessions) /\ state.soft.number \in Nat
      /\ state.firm.number \in Nat
  BY RunningTypes
<1>3. CASE cur.update = "OnlySoft"
  <2>1. Sessions[session].rollupStart <= state.soft.number + 1 /\ cur.height = NextSoft
    BY <1>3 DEF CurInv, StateInv
  <2> QED BY <1>1, <1>2, <1>3, <2>1, NextExpectedIsCanonical DEF NextSoft
<1>4. CASE cur.update # "OnlySoft"
  <2>1. Sessions[session].rollupStart <= state.firm.number + 1 /\ cur.height = NextFirm
    BY <1>1, <1>4 DEF CurInv, StateInv, Updates
  <2> QED BY <1>1, <1>2, <1>4, <2>1, NextExpectedIsCanonical DEF NextFirm
<1> QED BY <1>1, <1>3, <1>4

(* execute_block builds the next canonical block on the tracked head.      *)
LEMMA ExecuteBlockPreserves ==
    ASSUME IInv, ExecuteBlock PROVE IInv'
<1> USE DEF ExecuteBlock, loopVars, envVars
<1>1. /\ TypeOK /\ LevelInv /\ StateInv /\ FirmFeedInv /\ SoftFeedInv /\ CurInv
      /\ PendingInv /\ RollupInv
  BY DEF IInv, Running
<1> DEFINE b == [number |-> Parent.number + 1, hash |-> Append(Parent.hash, cur.height)]
<1>2. cur \in [update : Updates \cup {"none"}, height : Nat, block : Block]
  BY <1>1 DEF TypeOK
<1>3. /\ cur.update \in {"OnlySoft", "ToSame"}
      /\ Parent \in Block /\ Canonical(Parent)
      /\ cur.height = CanonicalHeight(Parent.number + 1)
      /\ NumberAt(session, cur.height) = Parent.number + 1
  BY <1>1, HeightFacts, RunningTypes DEF CurInv, Parent, StateInv, Updates
<1>4. b \in Block /\ Canonical(b) BY <1>2, <1>3, ExtendCanonical
<1> HIDE DEF b
<1>5. cur' = [cur EXCEPT !.block = b] BY DEF b
<1>6. /\ cur' \in [update : Updates \cup {"none"}, height : Nat, block : Block]
      /\ cur'.update = cur.update /\ cur'.height = cur.height /\ cur'.block = b
  <2> HIDE DEF ExecuteBlock
  <2> QED BY <1>2, <1>4, <1>5
<1>7. TypeOK' BY <1>1, <1>6 DEF TypeOK
<1>8. b.number = NumberAt(session, cur.height) BY <1>3 DEF b
<1>9. CurInv'
  BY <1>1, <1>3, <1>4, <1>6, <1>8
  DEF CurInv, NextFirm, NextSoft, session, ShouldExecuteFirmBlock, Canonical, Updates
<1>10. FirmFeedInv' BY <1>1, <1>6 DEF FirmFeedInv, FirmBase, NextFirm, session
<1>11. SoftFeedInv' BY <1>1, <1>6 DEF SoftFeedInv, SoftBase, NextSoft, session
<1>12. RollupInv' BY <1>1 DEF RollupInv, Commitments
<1> QED BY <1>1, <1>7, <1>9, <1>10, <1>11, <1>12, StateFrame, PendingFrame, LevelFrame
    DEF IInv, Canonical

(* A fetched block is the canonical one with the number asked for.         *)
LEMMA FetchExecutedBlockPreserves ==
    ASSUME IInv, FetchExecutedBlock PROVE IInv'
<1> USE DEF FetchExecutedBlock, loopVars, envVars
<1>1. /\ TypeOK /\ LevelInv /\ StateInv /\ FirmFeedInv /\ SoftFeedInv /\ CurInv
      /\ PendingInv /\ RollupInv /\ Canonical(rollup.soft)
  BY DEF IInv, Running
<1> DEFINE n == NumberAt(session, cur.height)
<1> DEFINE b == [number |-> n, hash |-> SubSeq(rollup.soft.hash, 1, n)]
<1>2. /\ cur \in [update : Updates \cup {"none"}, height : Nat, block : Block]
      /\ rollup.soft \in Block /\ state.firm.number \in Nat
  BY <1>1, RunningTypes DEF TypeOK
<1>3. cur.update = "OnlyFirm" /\ n = state.firm.number + 1 /\ n <= rollup.soft.number
  BY <1>1, HeightFacts DEF CurInv
<1>4. n \in Nat BY <1>2, <1>3
<1>5. b \in Block /\ Canonical(b) /\ b.number = n
  BY <1>1, <1>2, <1>3, <1>4, PrefixCanonical
<1>6. cur' = [cur EXCEPT !.block = b] OBVIOUS
<1> HIDE DEF b
<1>7. /\ cur' \in [update : Updates \cup {"none"}, height : Nat, block : Block]
      /\ cur'.update = cur.update /\ cur'.height = cur.height /\ cur'.block = b
  <2> HIDE DEF FetchExecutedBlock
  <2> QED BY <1>2, <1>5, <1>6
<1>8. TypeOK' BY <1>1, <1>7 DEF TypeOK
<1>9. CurInv'
  BY <1>1, <1>3, <1>5, <1>7
  DEF CurInv, NextFirm, NextSoft, session, ShouldExecuteFirmBlock, Canonical, Updates
<1>10. FirmFeedInv' BY <1>1, <1>7 DEF FirmFeedInv, FirmBase, NextFirm, session
<1>11. SoftFeedInv' BY <1>1, <1>7 DEF SoftFeedInv, SoftBase, NextSoft, session
<1>12. RollupInv' BY <1>1 DEF RollupInv, Commitments
<1> QED BY <1>1, <1>8, <1>9, <1>10, <1>11, <1>12, StateFrame, PendingFrame, LevelFrame
    DEF IInv, Canonical

(* What update_commitment_state asks for: canonical blocks, firm at or     *)
(* below soft, one block further than the tracked state.                   *)
LEMMA WantedFacts ==
    ASSUME IInv, pc \in {"update", "apply"}
    PROVE  /\ Wanted.firm \in Block /\ Wanted.soft \in Block /\ Wanted.search \in Nat
           /\ Canonical(Wanted.firm) /\ Canonical(Wanted.soft)
           /\ Wanted.firm.number <= Wanted.soft.number
           /\ cur.update = "OnlySoft" =>
                /\ Wanted.firm = state.firm
                /\ Wanted.soft.number = state.soft.number + 1
           /\ cur.update = "OnlyFirm" =>
                /\ Wanted.soft = state.soft
                /\ Wanted.firm.number = state.firm.number + 1
           /\ cur.update = "ToSame" =>
                /\ Wanted.soft = Wanted.firm
                /\ Wanted.firm.number = state.firm.number + 1
<1>1. TypeOK /\ StateInv /\ CurInv BY DEF IInv, Running
<1>2. /\ cur.update \in Updates /\ cur.block \in Block /\ cur.height \in Nat
      /\ Canonical(cur.block) /\ cur.block.number = NumberAt(session, cur.height)
      /\ state.firm \in Block /\ state.soft \in Block /\ state.search \in Nat
      /\ state.firm.number \in Nat /\ state.soft.number \in Nat
  BY <1>1, RunningTypes DEF TypeOK, CurInv
<1>3. cur.update = "OnlySoft" => cur.block.number = state.soft.number + 1
  BY <1>1, <1>2, HeightFacts
<1>4. cur.update # "OnlySoft" => cur.block.number = state.firm.number + 1
  BY <1>1, <1>2, HeightFacts
<1>5. Canonical(state.firm) /\ Canonical(state.soft) /\ state.firm.number <= state.soft.number
  BY <1>1 DEF StateInv
<1>6. cur.update = "OnlyFirm" => state.firm.number < state.soft.number
  BY <1>1 DEF CurInv
<1>7. cur.update # "OnlySoft" => CelestiaOf[cur.height] \in Nat
  <2>1. cur.update # "OnlySoft" => cur.height \in 0..LastHeight
    BY <1>1, <1>2, ExecutorAssumption DEF CurInv, Updates
  <2> QED BY <2>1, ExecutorAssumption
<1> QED BY <1>2, <1>3, <1>4, <1>5, <1>6, <1>7 DEF Wanted, Updates

(* The update applied by the rollup keeps its chains canonical.            *)
LEMMA UpdateCommitmentStatePreserves ==
    ASSUME IInv, UpdateCommitmentState PROVE IInv'
<1> USE DEF UpdateCommitmentState, loopVars, envVars
<1>1. /\ TypeOK /\ LevelInv /\ StateInv /\ FirmFeedInv /\ SoftFeedInv /\ CurInv
      /\ PendingInv /\ pc = "update"
  BY DEF IInv, Running
<1>2. /\ Wanted.firm \in Block /\ Wanted.soft \in Block /\ Wanted.search \in Nat
      /\ Canonical(Wanted.firm) /\ Canonical(Wanted.soft)
      /\ Wanted.firm.number <= Wanted.soft.number
      /\ Wanted.firm.number \in Nat /\ Wanted.soft.number \in Nat
  BY <1>1, WantedFacts DEF Block
<1>3. /\ rollup' = [firm |-> Wanted.firm, soft |-> Wanted.soft,
                    search |-> Wanted.search, live |-> TRUE]
      /\ pc' = "apply" /\ UNCHANGED <<cur, result, level, state, blocksPendingFinalization,
             firmBlocks, softBlocks, readersCancelled, firmReader, softReader>>
  BY <1>2
<1> HIDE DEF UpdateCommitmentState
<1>4. TypeOK' BY <1>1, <1>2, <1>3 DEF TypeOK
<1>5. CurInv' BY <1>1, <1>3
  DEF CurInv, NextFirm, NextSoft, session, ShouldExecuteFirmBlock, Canonical
<1>6. Wanted' = Wanted BY <1>3 DEF Wanted
<1>7. RollupInv'
  <2>1. Wanted = [firm |-> Wanted.firm, soft |-> Wanted.soft, search |-> Wanted.search]
    BY DEF Wanted
  <2> QED BY <1>3, <1>6, <2>1 DEF RollupInv, Commitments
<1>8. /\ Canonical(rollup.firm)' /\ Canonical(rollup.soft)'
      /\ rollup'.firm.number <= rollup'.soft.number
  BY <1>2, <1>3 DEF Canonical
<1> QED BY <1>1, <1>3, <1>4, <1>5, <1>7, <1>8, StateFrame, FirmFeedFrame, SoftFeedFrame,
           PendingFrame, LevelFrame DEF IInv

(* The watched state catches up with the rollup.                           *)
LEMMA ApplyCommitmentStatePreserves ==
    ASSUME IInv, ApplyCommitmentState PROVE IInv'
<1> USE DEF ApplyCommitmentState, envVars
<1>1. /\ TypeOK /\ LevelInv /\ StateInv /\ FirmFeedInv /\ SoftFeedInv /\ CurInv
      /\ PendingInv /\ RollupInv /\ pc = "apply"
  BY DEF IInv, Running
<1>2. UNCHANGED <<level, rollup, firmBlocks, softBlocks, readersCancelled, firmReader,
                  softReader>>
  OBVIOUS
<1>3. CASE ~TryUpdateCommitmentState(session, UpdateLevel, Wanted.firm.number,
                                     Wanted.soft.number)
  <2>1. Exit("error") /\ UNCHANGED <<state, blocksPendingFinalization>> BY <1>3
  <2> QED BY <1>2, <2>1, ExitPreserves DEF loopVars
<1>4. CASE TryUpdateCommitmentState(session, UpdateLevel, Wanted.firm.number,
                                    Wanted.soft.number)
  <2> DEFINE n == NumberAt(session, cur.height)
  <2>1. /\ state' = [session |-> session, firm |-> Wanted.firm,
                     soft |-> Wanted.soft, search |-> Wanted.search]
        /\ blocksPendingFinalization' =
             IF cur.update = "OnlySoft"
             THEN [m \in DOMAIN blocksPendingFinalization \cup {n} |->
                     IF m = n THEN cur.block ELSE blocksPendingFinalization[m]]
             ELSE blocksPendingFinalization
        /\ pc' = "firm" /\ cur' = Idle /\ UNCHANGED result
    BY <1>4
  <2> HIDE DEF ApplyCommitmentState
  <2>2. /\ session \in 1..Len(Sessions) /\ session' = session
        /\ state.firm.number \in Nat /\ state.soft.number \in Nat
        /\ state.firm.number <= state.soft.number
        /\ NextFirm \in Int /\ NextSoft \in Int
    BY <1>1, <2>1, RunningTypes DEF StateInv, session
  <2>3. /\ Wanted.firm \in Block /\ Wanted.soft \in Block /\ Wanted.search \in Nat
        /\ Canonical(Wanted.firm) /\ Canonical(Wanted.soft)
        /\ Wanted.firm.number <= Wanted.soft.number
        /\ state'.firm = Wanted.firm /\ state'.soft = Wanted.soft
    BY <1>1, <2>1, WantedFacts
  <2>4. cur.update \in Updates /\ cur.block \in Block
    BY <1>1, HeightFacts DEF TypeOK
  (* in soft-and-firm mode ToSame starts from equal commitments *)
  <2>5. ASSUME cur.update = "ToSame"
        PROVE  level = "FirmOnly" \/ state.soft.number = state.firm.number
    <3>1. level = "FirmOnly" \/ NextFirm = NextSoft
      BY <1>1, <2>5 DEF CurInv, ShouldExecuteFirmBlock
    <3>2. Sessions[session].seqStart \in Nat /\ Sessions[session].rollupStart \in Nat
      BY <2>2, SessionTypes
    <3> QED BY <2>2, <3>1, <3>2 DEF NextFirm, NextSoft, NextExpected, HeightAt
  <2>6. /\ cur.update = "OnlySoft" =>
             /\ state'.firm.number = state.firm.number
             /\ state'.soft.number = state.soft.number + 1
        /\ cur.update = "OnlyFirm" =>
             /\ state'.firm.number = state.firm.number + 1
             /\ state'.soft.number = state.soft.number
        /\ cur.update = "ToSame" =>
             /\ state'.firm.number = state.firm.number + 1
             /\ state'.soft.number = state.firm.number + 1
    BY <1>1, <2>3, WantedFacts
  <2>7. IsWithSoft(level) => state'.soft.number >= state.soft.number
    BY <2>2, <2>4, <2>5, <2>6 DEF Updates, IsWithSoft
  <2>8. Idle \in [update : Updates \cup {"none"}, height : Nat, block : Block]
    BY GenesisCanonical DEF Idle
  <2>9. /\ DOMAIN blocksPendingFinalization' \subseteq Nat
        /\ \A m \in DOMAIN blocksPendingFinalization' :
              blocksPendingFinalization'[m] \in Block
    <3>1. cur.update = "OnlySoft" => n \in Nat BY <1>1, <2>2, HeightFacts
    <3> QED BY <1>1, <2>1, <2>4, <3>1 DEF TypeOK
  <2>10. TypeOK' BY <1>1, <1>2, <2>1, <2>2, <2>3, <2>8, <2>9 DEF TypeOK
  <2>11. StateInv'
    <3>1. Canonical(state.firm)' /\ Canonical(state.soft)' BY <2>3 DEF Canonical
    <3>2. Sessions[session].rollupStart \in Nat BY <2>2, SessionTypes
    <3>3. IsWithFirm(level) => Sessions[session].rollupStart <= state'.firm.number + 1
      BY <1>1, <2>2, <2>4, <2>6, <3>2 DEF StateInv, Updates
    <3>4. IsWithSoft(level) => Sessions[session].rollupStart <= state'.soft.number + 1
      <4>1. state'.soft.number \in Nat BY <2>3 DEF Block
      <4> QED BY <1>1, <2>2, <2>7, <3>2, <4>1 DEF StateInv
    <3> QED BY <1>2, <2>2, <2>3, <3>1, <3>3, <3>4 DEF StateInv
  <2>12. /\ Sessions[session].seqStart \in Nat /\ Sessions[session].rollupStart \in Nat
         /\ Sessions[session].lookAhead \in Nat
    BY <2>2, SessionTypes
  <2>13. cur'.update = "none" BY <2>1 DEF Idle
  <2>14. FirmFeedInv'
    <3>1. FirmBase' = NextExpected(session, state'.firm.number)
      BY <2>2, <2>13 DEF FirmBase, NextFirm
    <3>2. FirmBase' = FirmBase
      <4>1. CASE cur.update = "OnlySoft"
        BY <2>6, <3>1, <4>1 DEF FirmBase, NextFirm
      <4>2. CASE cur.update \in {"OnlyFirm", "ToSame"}
        <5>1. state'.firm.number = state.firm.number + 1 BY <2>6, <4>2
        <5>2. FirmBase = NextExpected(session, state.firm.number) + 1
          BY <4>2 DEF FirmBase, NextFirm
        <5> QED BY <2>2, <3>1, <5>1, <5>2, NextExpectedMonotone
      <4> QED BY <2>4, <4>1, <4>2 DEF Updates
    <3> QED BY <1>1, <1>2, <2>2, <3>2 DEF FirmFeedInv
  <2>15. SoftFeedInv'
    <3>1. CASE IsWithSoft(level)
      <4>1. state'.soft.number \in Nat BY <2>3 DEF Block
      <4>2. SoftBase' >= SoftBase /\ SoftBase' \in Int /\ SoftBase \in Int
        <5>1. SoftBase' = NextExpected(session, state'.soft.number)
          BY <2>2, <2>13 DEF SoftBase, NextSoft
        <5>2. CASE cur.update = "OnlySoft"
          <6>1. SoftBase = NextExpected(session, state.soft.number) + 1
            BY <5>2 DEF SoftBase, NextSoft
          <6>2. state'.soft.number = state.soft.number + 1 BY <2>6, <5>2
          <6>3. /\ NextExpected(session, state.soft.number) \in Int
                /\ NextExpected(session, state.soft.number + 1)
                     = NextExpected(session, state.soft.number) + 1
            BY <2>2, NextExpectedMonotone
          <6> QED BY <5>1, <6>1, <6>2, <6>3
        <5>3. CASE cur.update # "OnlySoft"
          <6>1. SoftBase = NextExpected(session, state.soft.number)
            BY <5>3 DEF SoftBase, NextSoft
          <6>2. state.soft.number <= state'.soft.number BY <2>2, <2>7, <3>1, <4>1
          <6>3. /\ NextExpected(session, state.soft.number) \in Int
                /\ NextExpected(session, state'.soft.number) \in Int
                /\ NextExpected(session, state.soft.number)
                     <= NextExpected(session, state'.soft.number)
            BY <2>2, <4>1, <6>2, NextExpectedMonotone
          <6> QED BY <5>1, <6>1, <6>3
        <5> QED BY <5>2, <5>3
      <4>3. \A i \in 1..Len(softBlocks) : softBlocks[i] \in Nat
        BY <1>1, RunningTypes, ElementOfSeq
      <4>4. softReader.next \in Nat BY <1>1, RunningTypes
      <4>5. softBlocks' = softBlocks /\ softReader' = softReader /\ session' = session
        BY <1>2, <2>2
      <4>6. ASSUME NEW i \in 1..Len(softBlocks)
            PROVE  /\ \/ softBlocks[i] <= SoftBase'
                      \/ i > 1 /\ softBlocks[i] = softBlocks[i-1] + 1
                   /\ ~PastStopHeight(session, softBlocks[i])
        <5>1. /\ \/ softBlocks[i] <= SoftBase
                 \/ i > 1 /\ softBlocks[i] = softBlocks[i-1] + 1
              /\ ~PastStopHeight(session, softBlocks[i])
          BY <1>1 DEF SoftFeedInv
        <5>2. softBlocks[i] \in Nat BY <4>3
        <5> QED BY <4>2, <5>1, <5>2
      <4>7. softReader.task = "run" =>
              \/ softReader.next <= SoftBase'
              \/ /\ Len(softBlocks) > 0
                 /\ softReader.next = softBlocks[Len(softBlocks)] + 1
        <5>1. softReader.task = "run" =>
                \/ softReader.next <= SoftBase
                \/ /\ Len(softBlocks) > 0
                   /\ softReader.next = softBlocks[Len(softBlocks)] + 1
          BY <1>1 DEF SoftFeedInv
        <5> QED BY <4>2, <4>4, <5>1
      <4> QED BY <4>5, <4>6, <4>7 DEF SoftFeedInv
    <3>2. CASE ~IsWithSoft(level)
      BY <1>1, <1>2, <3>2 DEF LevelInv, SoftFeedInv, NoReader
    <3> QED BY <3>1, <3>2
  <2>16. CurInv' BY <2>1 DEF CurInv, Idle, Updates
  <2>17. LevelInv' BY <1>1, <1>2, <2>1 DEF LevelInv, CurInv
  <2>18. PendingInv'
    <3>1. CASE cur.update = "OnlySoft"
      <4>1. /\ n = state.soft.number + 1 /\ cur.block.number = n /\ Canonical(cur.block)
            /\ IsWithFirm(level) =>
                 state.soft.number < state.firm.number + Sessions[session].lookAhead
        BY <1>1, <3>1, HeightFacts DEF CurInv
      <4>2. \A m \in DOMAIN blocksPendingFinalization : m \in Nat
        BY <1>1 DEF TypeOK
      <4> HIDE DEF n
      <4>3. ASSUME NEW m \in DOMAIN blocksPendingFinalization'
            PROVE /\ m \in state'.firm.number + 1 .. state'.soft.number
                  /\ Canonical(blocksPendingFinalization'[m])
                  /\ blocksPendingFinalization'[m].number = m
                  /\ IsWithFirm(level') =>
                       m <= state'.firm.number + Sessions[session'].lookAhead
        <5>1. CASE m = n
          <6>1. blocksPendingFinalization'[m] = cur.block BY <2>1, <3>1, <5>1
          <6> QED BY <1>2, <2>2, <2>6, <2>12, <3>1, <4>1, <5>1, <6>1
        <5>2. CASE m # n
          <6>1. /\ m \in DOMAIN blocksPendingFinalization
                /\ blocksPendingFinalization'[m] = blocksPendingFinalization[m]
            BY <2>1, <3>1, <5>2
          <6> QED BY <1>1, <1>2, <2>2, <2>6, <2>12, <3>1, <4>2, <6>1 DEF PendingInv
        <5> QED BY <5>1, <5>2
      <4> QED BY <2>13, <4>3 DEF PendingInv, Canonical
    <3>2. CASE cur.update = "OnlyFirm"
      <4>1. UNCHANGED blocksPendingFinalization BY <2>1, <3>2
      <4>2. \A m \in DOMAIN blocksPendingFinalization : m \in Nat BY <1>1 DEF TypeOK
      <4>3. ASSUME NEW m \in DOMAIN blocksPendingFinalization
            PROVE /\ m \in state'.firm.number + 1 .. state'.soft.number
                  /\ IsWithFirm(level') =>
                       m <= state'.firm.number + Sessions[session'].lookAhead
        <5>1. /\ m \in state.firm.number + 1 .. state.soft.number /\ m # state.firm.number + 1
              /\ IsWithFirm(level) => m <= state.firm.number + Sessions[session].lookAhead
          BY <1>1, <3>2 DEF PendingInv
        <5>2. /\ state'.firm.number = state.firm.number + 1
              /\ state'.soft.number = state.soft.number
              /\ state.firm.number \in Nat /\ state.soft.number \in Nat
          BY <2>2, <2>6, <3>2
        <5> QED BY SMTT(30), <1>2, <2>2, <2>12, <4>2, <5>1, <5>2
      <4>4. \A m \in DOMAIN blocksPendingFinalization :
              /\ Canonical(blocksPendingFinalization[m])
              /\ blocksPendingFinalization[m].number = m
        BY <1>1 DEF PendingInv
      <4> QED BY <2>13, <4>1, <4>3, <4>4 DEF PendingInv, Canonical
    <3>3. CASE cur.update = "ToSame"
      <4>1. UNCHANGED blocksPendingFinalization BY <2>1, <3>3
      <4>2. DOMAIN blocksPendingFinalization = {}
        <5>1. CASE level = "FirmOnly" BY <1>1, <5>1 DEF LevelInv, IsWithSoft
        <5>2. CASE state.soft.number = state.firm.number
          <6>1. \A m \in DOMAIN blocksPendingFinalization :
                  m \in state.firm.number + 1 .. state.soft.number
            BY <1>1 DEF PendingInv
          <6>2. state.firm.number + 1 .. state.soft.number = {} BY <2>2, <5>2
          <6> QED BY <6>1, <6>2
        <5> QED BY <2>5, <3>3, <5>1, <5>2
      <4> QED BY <2>13, <4>1, <4>2 DEF PendingInv
    <3> QED BY <2>4, <3>1, <3>2, <3>3 DEF Updates
  <2>19. RollupInv'
    <3>1. Commitments(rollup) = Wanted BY <1>1 DEF RollupInv
    <3>2. Wanted = [firm |-> Wanted.firm, soft |-> Wanted.soft, search |-> Wanted.search]
      BY DEF Wanted
    <3> QED BY <1>2, <2>1, <3>1, <3>2 DEF RollupInv, Commitments
  <2> QED BY <1>2, <2>10, <2>11, <2>14, <2>15, <2>16, <2>17, <2>18, <2>19
      DEF IInv, Canonical
<1> QED BY <1>3, <1>4

(* Repeating an update changes nothing.                                    *)
LEMMA RetryUpdatePreserves ==
    ASSUME IInv, RetryUpdate PROVE IInv'
<1> USE DEF RetryUpdate, loopVars, envVars
<1>1. /\ TypeOK /\ LevelInv /\ StateInv /\ FirmFeedInv /\ SoftFeedInv /\ CurInv
      /\ PendingInv /\ RollupInv
  BY DEF IInv, Running
<1>2. TypeOK' BY <1>1 DEF TypeOK
<1>3. CurInv' BY <1>1
  DEF CurInv, NextFirm, NextSoft, session, ShouldExecuteFirmBlock, Canonical
<1>4. RollupInv' BY <1>1 DEF RollupInv, Commitments, Wanted
<1> QED BY <1>1, <1>2, <1>3, <1>4, StateFrame, FirmFeedFrame, SoftFeedFrame,
           PendingFrame, LevelFrame DEF IInv, Canonical

(* Invalidating the session leaves the commitments alone.                  *)
LEMMA InvalidateSessionPreserves ==
    ASSUME IInv, InvalidateSession PROVE IInv'
<1> USE DEF InvalidateSession, loopVars, envVars
<1>1. TypeOK /\ LevelInv BY DEF IInv
<1>2. rollup \in [firm : Block, soft : Block, search : Nat, live : BOOLEAN]
  BY <1>1 DEF TypeOK
<1>3. rollup' = [rollup EXCEPT !.live = FALSE] OBVIOUS
<1>4. /\ rollup' \in [firm : Block, soft : Block, search : Nat, live : BOOLEAN]
      /\ rollup'.firm = rollup.firm /\ rollup'.soft = rollup.soft
      /\ rollup'.search = rollup.search
  <2> HIDE DEF InvalidateSession
  <2> QED BY <1>2, <1>3
<1>5. TypeOK' BY <1>1, <1>4 DEF TypeOK
<1>6. Running => RollupInv' BY <1>4 DEF IInv, RollupInv, Commitments, Wanted
<1> QED BY <1>1, <1>4, <1>5, <1>6, StateFrame, FirmFeedFrame, SoftFeedFrame, CurFrame,
           PendingFrame, LevelFrame DEF IInv, Canonical, Running

(* A new session starts from the rollup's commitments.                     *)
LEMMA CreateSessionPreserves ==
    ASSUME IInv, CreateSession PROVE IInv'
<1>1. TypeOK /\ Canonical(rollup.firm) /\ Canonical(rollup.soft)
      /\ rollup.firm.number <= rollup.soft.number
  BY DEF IInv
<1>2. PICK j \in 1..Len(Sessions) :
        /\ rollup' = [rollup EXCEPT !.live = TRUE]
        /\ IF SessionAccepted(j)
           THEN /\ state' = [session |-> j, firm |-> rollup.firm,
                             soft |-> rollup.soft, search |-> rollup.search]
                /\ firmReader' = IF IsWithFirm(level)
                     THEN [task |-> "run",
                           next |-> NextExpected(j, rollup.firm.number)]
                     ELSE NoReader
                /\ softReader' = IF IsWithSoft(level)
                     THEN [task |-> "run",
                           next |-> NextExpected(j, rollup.soft.number)]
                     ELSE NoReader
                /\ pc' = "firm" /\ cur' = Idle /\ UNCHANGED result
           ELSE Exit("error") /\ UNCHANGED <<state, firmReader, softReader>>
  BY DEF CreateSession
<1>3. /\ blocksPendingFinalization' = << >> /\ firmBlocks' = << >> /\ softBlocks' = << >>
      /\ readersCancelled' = FALSE /\ UNCHANGED level /\ pc = "init"
  BY DEF CreateSession
<1>4. /\ rollup \in [firm : Block, soft : Block, search : Nat, live : BOOLEAN]
      /\ rollup.firm.number \in Nat /\ rollup.soft.number \in Nat
  BY <1>1 DEF TypeOK, Block
<1>5. /\ rollup' \in [firm : Block, soft : Block, search : Nat, live : BOOLEAN]
      /\ rollup'.firm = rollup.firm /\ rollup'.soft = rollup.soft
      /\ rollup'.search = rollup.search
  BY <1>2, <1>4
<1>6. Canonical(rollup.firm)' /\ Canonical(rollup.soft)'
  BY <1>1, <1>5 DEF Canonical
<1>7. /\ << >> \in Seq(Nat) /\ Len(<< >>) = 0 /\ DOMAIN << >> = {}
      /\ NoReader \in Reader /\ NoReader.task # "run"
  BY DEF NoReader, Reader
<1>8. CASE ~SessionAccepted(j)
  <2>1. Exit("error") /\ UNCHANGED <<state, firmReader, softReader>> BY <1>2, <1>8
  <2>2. TypeOK' BY <1>1, <1>3, <1>5, <1>7, <2>1, GenesisCanonical DEF TypeOK, Exit, Idle
  <2>3. LevelInv' BY <1>3, <1>7, <2>1 DEF IInv, LevelInv
  <2> QED BY <1>1, <1>5, <1>6, <2>1, <2>2, <2>3 DEF IInv, Running, Exit
<1>9. CASE SessionAccepted(j)
  <2>1. /\ state' = [session |-> j, firm |-> rollup.firm,
                     soft |-> rollup.soft, search |-> rollup.search]
        /\ firmReader' = IF IsWithFirm(level)
             THEN [task |-> "run", next |-> NextExpected(j, rollup.firm.number)]
             ELSE NoReader
        /\ softReader' = IF IsWithSoft(level)
             THEN [task |-> "run", next |-> NextExpected(j, rollup.soft.number)]
             ELSE NoReader
        /\ pc' = "firm" /\ cur' = Idle /\ UNCHANGED result
    BY <1>2, <1>9
  <2>2. /\ IsWithFirm(level) => Sessions[j].rollupStart <= rollup.firm.number + 1
        /\ IsWithSoft(level) => Sessions[j].rollupStart <= rollup.soft.number + 1
    BY <1>9 DEF SessionAccepted, TryFromExecutionSession, Mappable
  <2>3. /\ IsWithFirm(level) => NextExpected(j, rollup.firm.number) \in Nat
        /\ IsWithSoft(level) => NextExpected(j, rollup.soft.number) \in Nat
    BY <1>4, <2>2, NextExpectedIsCanonical
  <2>4. firmReader' \in Reader /\ softReader' \in Reader
    BY <1>7, <2>1, <2>3 DEF Reader
  <2>5. TypeOK' BY <1>1, <1>3, <1>4, <1>5, <1>7, <2>1, <2>4, GenesisCanonical
    DEF TypeOK, Idle
  <2>6. StateInv'
    BY <1>1, <1>3, <2>1, <2>2 DEF StateInv, session, Canonical
  <2>7. LevelInv' BY <1>3, <1>7, <2>1 DEF LevelInv
  <2>8. cur'.update = "none" /\ Idle.block \in Block
    BY <2>1, GenesisCanonical DEF Idle
  <2>9. CurInv' BY <2>1, <2>8 DEF CurInv, Idle, Updates
  <2>10. FirmFeedInv'
    <3>1. FirmBase' = NextExpected(j, rollup.firm.number)
      BY <2>1, <2>8 DEF FirmBase, NextFirm, session
    <3>2. 1..Len(firmBlocks') = {} /\ Len(firmBlocks') = 0 BY <1>3, <1>7
    <3>3. NextExpected(j, rollup.firm.number) \in Int BY <1>4, NextExpectedMonotone
    <3>4. firmReader'.task = "run" => firmReader'.next = NextExpected(j, rollup.firm.number)
      BY <1>7, <2>1
    <3> QED BY <3>1, <3>2, <3>3, <3>4 DEF FirmFeedInv
  <2>11. SoftFeedInv'
    <3>1. SoftBase' = NextExpected(j, rollup.soft.number)
      BY <2>1, <2>8 DEF SoftBase, NextSoft, session
    <3>2. 1..Len(softBlocks') = {} /\ Len(softBlocks') = 0 BY <1>3, <1>7
    <3>3. NextExpected(j, rollup.soft.number) \in Int BY <1>4, NextExpectedMonotone
    <3>4. softReader'.task = "run" => softReader'.next = NextExpected(j, rollup.soft.number)
      BY <1>7, <2>1
    <3> QED BY <3>1, <3>2, <3>3, <3>4 DEF SoftFeedInv
  <2>12. PendingInv' BY <1>3, <1>7, <2>8 DEF PendingInv
  <2>13. RollupInv' BY <1>5, <2>1 DEF RollupInv, Commitments
  <2> QED BY <1>1, <1>5, <1>6, <2>5, <2>6, <2>7, <2>9, <2>10, <2>11, <2>12, <2>13 DEF IInv
<1> QED BY <1>8, <1>9

(* A restart keeps nothing but the rollup.                                 *)
LEMMA ResetPreserves ==
    ASSUME IInv, Reset, UNCHANGED rollup, level' \in CommitLevels PROVE IInv'
<1>1. /\ << >> \in Seq(Nat) /\ DOMAIN << >> = {} /\ NoReader \in Reader
  BY DEF NoReader, Reader
<1>2. 1 \in 1..Len(Sessions)
  BY SessionsAssumption, EmptySeq, LenProperties
<1>3. TypeOK'
  BY <1>1, <1>2, GenesisCanonical DEF IInv, TypeOK, Reset, NoState, Idle
<1>4. LevelInv' BY <1>1 DEF LevelInv, Reset
<1>5. ~Running' BY DEF Reset, Running
<1> QED BY <1>3, <1>4, <1>5 DEF IInv, Canonical

(* The initial states satisfy the invariant.                               *)
LEMMA InitEstablishes == Init => IInv
<1> SUFFICES ASSUME Init PROVE IInv
  OBVIOUS
<1>1. /\ << >> \in Seq(Nat) /\ DOMAIN << >> = {} /\ NoReader \in Reader
  BY DEF NoReader, Reader
<1>2. 1 \in 1..Len(Sessions)
  BY SessionsAssumption, EmptySeq, LenProperties
<1>3. TypeOK
  BY <1>1, <1>2, GenesisCanonical, LevelsAssumption DEF TypeOK, Init, NoState, Idle
<1>4. LevelInv BY <1>1 DEF LevelInv, Init
<1>5. /\ ~Running /\ Canonical(rollup.firm) /\ Canonical(rollup.soft)
      /\ rollup.firm.number <= rollup.soft.number
  BY GenesisCanonical DEF Init, Running, Genesis
<1> QED BY <1>3, <1>4, <1>5 DEF IInv

(* Every step preserves the invariant: one case per action.                *)
LEMMA NextPreserves == IInv /\ [Next]_vars => IInv'
<1> SUFFICES ASSUME IInv, [Next]_vars PROVE IInv'
  OBVIOUS
<1>1. CASE ReaderStep
  BY <1>1, FirmReaderSendPreserves, SoftReaderSendPreserves, SoftReaderSkipPreserves,
     ReaderExitPreserves DEF ReaderStep
<1>2. CASE ExecutorStep
  <2>1. CASE PermissionDenied BY <2>1, ExitPreserves DEF PermissionDenied
  <2> QED
    BY <1>2, <2>1, CreateSessionPreserves, PollFirmPreserves, PollSoftPreserves,
       JoinPreserves, ExecuteBlockPreserves, FetchExecutedBlockPreserves,
       UpdateCommitmentStatePreserves, ApplyCommitmentStatePreserves
    DEF ExecutorStep
<1>3. CASE Fault
  <2>1. CASE RefuseSession BY <2>1, ExitPreserves DEF RefuseSession
  <2>2. CASE RpcFails BY <2>2, ExitPreserves DEF RpcFails
  <2> QED BY <1>3, <2>1, <2>2, ReaderExitPreserves, RetryUpdatePreserves,
             InvalidateSessionPreserves DEF Fault
<1>4. CASE ShutdownSignal BY <1>4, ExitPreserves DEF ShutdownSignal
<1>5. CASE Restart
  <2>1. level \in CommitLevels BY DEF IInv, TypeOK
  <2> QED BY <1>5, <2>1, ResetPreserves DEF Restart
<1>6. CASE Crash \/ StartAgain
  BY <1>6, ResetPreserves, LevelsAssumption DEF Crash, StartAgain, Reboot
<1>7. CASE UNCHANGED vars
  <2>1. TypeOK' BY <1>7 DEF IInv, TypeOK, vars
  <2> QED BY <1>7, <2>1, StateFrame, FirmFeedFrame, SoftFeedFrame, CurFrame, PendingFrame,
             RollupFrame, LevelFrame DEF IInv, Canonical, Running, vars
<1> QED BY <1>1, <1>2, <1>3, <1>4, <1>5, <1>6, <1>7 DEF Next

(* IInv holds in every reachable state.                                    *)
THEOREM Invariance == Spec => []IInv
BY InitEstablishes, NextPreserves, PTL DEF Spec

(* The variables keep their types (Conductor as a whole).                  *)
THEOREM TypeCorrect == Spec => []TypeOK
<1>1. IInv => TypeOK BY DEF IInv
<1> QED BY <1>1, Invariance, PTL

(* The rollup's blocks are built from each Sequencer block exactly once    *)
(* and in order, for any sessions, faults, crashes and commit levels       *)
(* (execute_soft, execute_firm, update_commitment_state).                  *)
THEOREM ChainIsCanonical == Spec => []CanonicalChain
<1>1. IInv => CanonicalChain BY DEF IInv, CanonicalChain
<1> QED BY <1>1, Invariance, PTL

(* The firm block is an ancestor of the soft block (update_commitment_     *)
(* state).                                                                 *)
THEOREM FirmIsAncestor == Spec => []FirmBelongsToSoftChain
<1>1. ASSUME IInv PROVE FirmBelongsToSoftChain
  <2>1. /\ rollup.firm \in Block /\ rollup.soft \in Block
        /\ Canonical(rollup.firm) /\ Canonical(rollup.soft)
        /\ rollup.firm.number <= rollup.soft.number
    BY <1>1 DEF IInv, TypeOK
  <2> DEFINE b == [number |-> rollup.firm.number,
                   hash |-> SubSeq(rollup.soft.hash, 1, rollup.firm.number)]
  <2>2. rollup.firm.number \in Nat BY <2>1 DEF Block
  <2>3. b \in Block /\ Canonical(b) BY <2>1, <2>2, PrefixCanonical
  <2>4. b = rollup.firm BY <2>1, <2>3, CanonicalUnique
  <2> QED BY <2>1, <2>4 DEF FirmBelongsToSoftChain
<1> QED BY <1>1, Invariance, PTL

(* The tracked state lags the rollup by at most the update in flight       *)
(* (update_commitment_state and its retries).                              *)
THEOREM StateTracksRollup == Spec => []TracksRollup
<1>1. IInv => TracksRollup BY DEF IInv, RollupInv, TracksRollup
<1> QED BY <1>1, Invariance, PTL

(* blocks_pending_finalization holds blocks of the tracked soft chain      *)
(* above the firm block (execute_firm, execute_soft).                      *)
THEOREM PendingBlocksAreSoft == Spec => []PendingMatchesSoftChain
<1>1. ASSUME IInv PROVE PendingMatchesSoftChain
  <2>1. SUFFICES ASSUME Running, NEW n \in DOMAIN blocksPendingFinalization
                 PROVE  /\ n \in state.firm.number + 1 .. state.soft.number
                        /\ blocksPendingFinalization[n] =
                             [number |-> n, hash |-> SubSeq(state.soft.hash, 1, n)]
    BY DEF PendingMatchesSoftChain
  <2>2. TypeOK /\ StateInv /\ PendingInv BY <1>1, <2>1 DEF IInv
  <2>3. /\ state.soft \in Block /\ Canonical(state.soft)
        /\ state.firm.number \in Nat /\ state.soft.number \in Nat
    BY <2>2, RunningTypes DEF StateInv
  <2>4. /\ n \in state.firm.number + 1 .. state.soft.number
        /\ blocksPendingFinalization[n] \in Block
        /\ Canonical(blocksPendingFinalization[n])
        /\ blocksPendingFinalization[n].number = n
    BY <2>2 DEF PendingInv, TypeOK
  <2> DEFINE b == [number |-> n, hash |-> SubSeq(state.soft.hash, 1, n)]
  <2>5. n \in Nat /\ n <= state.soft.number BY <2>3, <2>4
  <2>6. b \in Block /\ Canonical(b) BY <2>3, <2>5, PrefixCanonical
  <2>7. b.number = n OBVIOUS
  <2> HIDE DEF b
  <2>8. blocksPendingFinalization[n] = b BY <2>4, <2>6, <2>7, CanonicalUnique
  <2> QED BY <2>4, <2>8 DEF b
<1> QED BY <1>1, Invariance, PTL

(* Soft execution leads firm execution by at most lookAhead blocks         *)
(* (is_spread_too_large).                                                  *)
THEOREM LeadIsBounded == Spec => []SoftLeadBounded
<1>1. IInv => SoftLeadBounded
  BY DEF IInv, PendingInv, SoftLeadBounded, IsWithFirm
<1> QED BY <1>1, Invariance, PTL

(* The out-of-order bails of execute_soft and execute_firm are never taken. *)
THEOREM BlocksAreInOrder == Spec => []NoBlockOutOfOrder
<1>1. ASSUME IInv PROVE NoBlockOutOfOrder
  <2>1. SUFFICES ASSUME pc \in {"firm", "soft", "join"}
                 PROVE  /\ firmBlocks # << >> => Head(firmBlocks) = NextFirm
                        /\ softBlocks # << >> => Head(softBlocks) <= NextSoft
    BY DEF NoBlockOutOfOrder
  <2>2. TypeOK /\ StateInv /\ FirmFeedInv /\ SoftFeedInv /\ CurInv
    BY <1>1, <2>1 DEF IInv, Running
  <2>3. FirmBase = NextFirm /\ SoftBase = NextSoft
    BY <2>1, <2>2 DEF CurInv, Idle, FirmBase, SoftBase
  <2>4. ASSUME firmBlocks # << >> PROVE Head(firmBlocks) = NextFirm
    <3>1. 1 \in 1..Len(firmBlocks) /\ Head(firmBlocks) = firmBlocks[1]
      BY <2>2, <2>4, RunningTypes, TailFacts
    <3> QED BY <2>2, <2>3, <3>1, RunningTypes DEF FirmFeedInv
  <2>5. ASSUME softBlocks # << >> PROVE Head(softBlocks) <= NextSoft
    <3>1. 1 \in 1..Len(softBlocks) /\ Head(softBlocks) = softBlocks[1]
      BY <2>2, <2>5, RunningTypes, TailFacts
    <3> QED BY <2>2, <2>3, <3>1 DEF SoftFeedInv
  <2> QED BY <2>4, <2>5
<1> QED BY <1>1, Invariance, PTL

-----------------------------------------------------------------------------
(* Only UpdateCommitmentState changes the commitments of the rollup, and   *)
(* it repeats the update in flight or moves one block on.                  *)
LEMMA RollupSteps ==
    ASSUME IInv, [Next]_vars
    PROVE  \/ Commitments(rollup)' = Commitments(rollup)
           \/ /\ pc = "update" /\ Commitments(rollup) = Commitments(state)
              /\ rollup'.firm = Wanted.firm /\ rollup'.soft = Wanted.soft
<1>1. CASE UpdateCommitmentState
  <2>1. pc = "update" /\ RollupInv BY <1>1 DEF UpdateCommitmentState, IInv, Running
  <2>2. CASE UNCHANGED rollup BY <2>2 DEF Commitments
  <2>3. CASE rollup' = [firm |-> Wanted.firm, soft |-> Wanted.soft,
                        search |-> Wanted.search, live |-> TRUE]
    <3>1. /\ rollup'.firm = Wanted.firm /\ rollup'.soft = Wanted.soft
          /\ rollup'.search = Wanted.search
      BY <2>3
    <3>2. Wanted = [firm |-> Wanted.firm, soft |-> Wanted.soft, search |-> Wanted.search]
      BY DEF Wanted
    <3>3. CASE Commitments(rollup) = Wanted BY <3>1, <3>2, <3>3 DEF Commitments
    <3>4. CASE Commitments(rollup) = Commitments(state) BY <2>1, <3>1, <3>4
    <3> QED BY <2>1, <3>3, <3>4 DEF RollupInv
  <2> QED BY <1>1, <2>2, <2>3 DEF UpdateCommitmentState
<1>2. CASE CreateSession \/ InvalidateSession
  <2>1. rollup \in [firm : Block, soft : Block, search : Nat, live : BOOLEAN]
    BY DEF IInv, TypeOK
  <2>2. rollup' \in {[rollup EXCEPT !.live = TRUE], [rollup EXCEPT !.live = FALSE]}
    BY <1>2 DEF CreateSession, InvalidateSession
  <2> QED BY <2>1, <2>2 DEF Commitments
<1>3. CASE UNCHANGED rollup BY <1>3 DEF Commitments
<1>4. \/ UpdateCommitmentState \/ CreateSession \/ InvalidateSession
      \/ UNCHANGED rollup
  BY DEF Next, vars, ReaderStep, ExecutorStep, Fault, FirmReaderSend, SoftReaderSend,
         SoftReaderSkip, FirmReaderReturns, SoftReaderReturns, PollFirm, PollSoft,
         JoinFirmReader, JoinSoftReader, JoinNothing, ExecuteBlock, FetchExecutedBlock,
         ApplyCommitmentState, PermissionDenied, RefuseSession, FirmReaderFails,
         SoftReaderFails, RetryUpdate, RpcFails, ShutdownSignal, Restart, Crash,
         StartAgain, Reboot
<1> QED BY <1>1, <1>2, <1>3, <1>4

(* The numbers of the rollup's commitments after such a step, in terms of  *)
(* those before it.                                                        *)
LEMMA NumberSteps ==
    ASSUME IInv, [Next]_vars
    PROVE  LET f == rollup.firm.number
               s == rollup.soft.number
               f1 == rollup'.firm.number
               s1 == rollup'.soft.number
           IN  /\ f \in Nat /\ s \in Nat /\ f <= s
               /\ \/ f1 = f /\ s1 = s
                  \/ f1 = f /\ s1 = s + 1 /\ Contains(session, s1)
                  \/ f1 = f + 1 /\ s1 = s /\ f < s /\ Contains(session, f1)
                  \/ /\ f1 = f + 1 /\ s1 = f + 1 /\ Contains(session, f1)
                     /\ level = "FirmOnly" \/ f = s
<1>1. /\ rollup.firm.number \in Nat /\ rollup.soft.number \in Nat
      /\ rollup.firm.number <= rollup.soft.number
  <2>1. rollup.firm \in Block /\ rollup.soft \in Block BY DEF IInv, TypeOK
  <2> QED BY <2>1 DEF IInv, Block
<1>2. CASE Commitments(rollup)' = Commitments(rollup)
  <2>1. rollup'.firm = rollup.firm /\ rollup'.soft = rollup.soft BY <1>2 DEF Commitments
  <2> QED BY <1>1, <2>1
<1>3. CASE /\ pc = "update" /\ Commitments(rollup) = Commitments(state)
           /\ rollup'.firm = Wanted.firm /\ rollup'.soft = Wanted.soft
  <2>1. rollup.firm = state.firm /\ rollup.soft = state.soft BY <1>3 DEF Commitments
  <2>2. TypeOK /\ StateInv /\ CurInv BY <1>3 DEF IInv, Running
  <2>3. cur.update \in Updates BY <1>3, <2>2, HeightFacts
  <2>4. CASE cur.update = "OnlySoft"
    <3>1. Wanted.firm = state.firm /\ Wanted.soft.number = state.soft.number + 1
      BY <1>3, <2>4, WantedFacts
    <3>2. Contains(session, state.soft.number + 1) BY <1>3, <2>2, <2>4, HeightFacts
    <3> QED BY <1>1, <1>3, <2>1, <3>1, <3>2
  <2>5. CASE cur.update = "OnlyFirm"
    <3>1. Wanted.soft = state.soft /\ Wanted.firm.number = state.firm.number + 1
      BY <1>3, <2>5, WantedFacts
    <3>2. Contains(session, state.firm.number + 1) BY <1>3, <2>2, <2>5, HeightFacts
    <3>3. state.firm.number < state.soft.number BY <2>2, <2>5 DEF CurInv
    <3> QED BY <1>1, <1>3, <2>1, <3>1, <3>2, <3>3
  <2>6. CASE cur.update = "ToSame"
    <3>1. Wanted.soft = Wanted.firm /\ Wanted.firm.number = state.firm.number + 1
      BY <1>3, <2>6, WantedFacts
    <3>2. Contains(session, state.firm.number + 1) BY <1>3, <2>2, <2>6, HeightFacts
    <3>3. level = "FirmOnly" \/ NextFirm = NextSoft
      BY <2>2, <2>6 DEF CurInv, ShouldExecuteFirmBlock
    <3>4. NextFirm = NextSoft => state.firm.number = state.soft.number
      <4>1. /\ Sessions[session].seqStart \in Nat /\ Sessions[session].rollupStart \in Nat
            /\ state.firm.number \in Nat /\ state.soft.number \in Nat
        BY <2>2, RunningTypes, SessionTypes
      <4>2. NextSoft - NextFirm = state.soft.number - state.firm.number
        BY <4>1 DEF NextFirm, NextSoft, NextExpected, HeightAt
      <4>3. NextFirm \in Int /\ NextSoft \in Int BY <2>2, RunningTypes
      <4> QED BY <4>1, <4>2, <4>3
    <3> QED BY <1>1, <1>3, <2>1, <3>1, <3>2, <3>3, <3>4
  <2> QED BY <2>3, <2>4, <2>5, <2>6 DEF Updates
<1> QED BY <1>2, <1>3, RollupSteps

(* No block past the end of the session, or before its start, is           *)
(* committed (sequencer_stop_height, map_rollup_number_to_sequencer_       *)
(* height).                                                                *)
THEOREM SessionEndHolds == Spec => SessionEndRespected
<1>1. ASSUME IInv, [Next]_vars
      PROVE  [\A n \in {rollup.firm.number', rollup.soft.number'} :
                n \notin {rollup.firm.number, rollup.soft.number} =>
                   Contains(session, n)]_vars
  BY <1>1, NumberSteps
<1> QED BY <1>1, Invariance, PTL DEF Spec, SessionEndRespected

(* Firm commitments are final, and only firm-only mode lowers the soft     *)
(* commitment (execute_firm, update_commitment_state).                     *)
THEOREM NeverReverts == Spec => CommitmentsNeverRevert
<1>1. ASSUME IInv, [Next]_vars
      PROVE  /\ rollup'.firm.number >= rollup.firm.number
             /\ \A i \in 1..rollup.firm.number :
                   rollup'.firm.hash[i] = rollup.firm.hash[i]
             /\ rollup'.soft.number >= rollup.soft.number \/ level = "FirmOnly"
  <2>1. IInv' BY <1>1, NextPreserves
  <2>2. /\ Canonical(rollup.firm) /\ rollup'.firm.number = Len(rollup'.firm.hash)
        /\ \A i \in 1..Len(rollup'.firm.hash) : rollup'.firm.hash[i] = CanonicalHeight(i)
    BY <1>1, <2>1 DEF IInv, Canonical
  <2>3. /\ rollup.firm.number \in Nat /\ rollup'.firm.number >= rollup.firm.number
        /\ rollup'.firm.number \in Nat
        /\ rollup'.soft.number >= rollup.soft.number \/ level = "FirmOnly"
    BY <1>1, NumberSteps
  <2>4. ASSUME NEW i \in 1..rollup.firm.number
        PROVE  rollup'.firm.hash[i] = rollup.firm.hash[i]
    BY <2>2, <2>3 DEF Canonical
  <2> QED BY <2>3, <2>4
<1> QED BY <1>1, Invariance, PTL DEF Spec, CommitmentsNeverRevert

(* Conductor implements the abstract ledger of commitments, but for the    *)
(* steps of firm-only mode that set the soft block back to the firm one.   *)
THEOREM ImplementsLedger == Spec => RefinesLedger
<1>1. Init => Ledger!Init BY DEF Init, Ledger!Init, Genesis
<1>2. ASSUME IInv, [Next]_vars
      PROVE  [Ledger!Next \/ RewindSoft]_<<rollup.firm.number, rollup.soft.number>>
  BY <1>2, NumberSteps
  DEF Ledger!Next, Ledger!ExtendSoft, Ledger!ConfirmFirm, Ledger!ExtendBoth, RewindSoft
<1> QED BY <1>1, <1>2, Invariance, PTL DEF Spec, RefinesLedger
=============================================================================
