----------------------------- MODULE Conductor ------------------------------
(***************************************************************************)
(* The Conductor process: it runs the executor, decides between a new      *)
(* execution session and termination when the executor returns             *)
(* (crates/astria-conductor/src/conductor/inner.rs, mod.rs), and is        *)
(* started again by its supervisor after it has terminated or crashed,     *)
(* possibly at another commit level.                                       *)
(***************************************************************************)
EXTENDS Executor

CONSTANT Levels   \* commit levels an operator starts Conductor with

ASSUME LevelsAssumption == Levels \subseteq CommitLevels /\ Levels # {}

Init ==
    /\ level \in Levels
    /\ rollup = [firm |-> Genesis, soft |-> Genesis, search |-> 0, live |-> FALSE]
    /\ state = NoState
    /\ blocksPendingFinalization = << >>
    /\ firmBlocks = << >> /\ softBlocks = << >>
    /\ firmReader = NoReader /\ softReader = NoReader
    /\ readersCancelled = FALSE
    /\ pc = "init" /\ cur = Idle /\ result = "none"

(* should_restart_or_shutdown and should_restart_despite_error: a session  *)
(* that ran to its end, or that the rollup has invalidated, is replaced    *)
ShouldRestart ==
    \/ result = "denied"
    \/ /\ result = "stopped"
       /\ IF IsWithFirm(level)
          THEN HasReachedStopHeight(session, state.firm.number)
          ELSE HasReachedStopHeight(session, state.soft.number)

Reset ==
    /\ state' = NoState
    /\ pc' = "init" /\ cur' = Idle /\ result' = "none"
    /\ blocksPendingFinalization' = << >>
    /\ firmBlocks' = << >> /\ softBlocks' = << >>
    /\ firmReader' = NoReader /\ softReader' = NoReader
    /\ readersCancelled' = FALSE

(* Conductor::restart: same configuration, new executor *)
Restart ==
    /\ pc = "exited" /\ ShouldRestart
    /\ Reset
    /\ UNCHANGED <<level, rollup>>

(* the process has terminated, with success or with an error, or crashes   *)
(* anywhere; the supervisor starts it again                                *)
Reboot ==
    /\ level' \in Levels
    /\ Reset
    /\ UNCHANGED rollup

Terminated == pc = "exited" /\ ~ShouldRestart

Crash == pc # "exited" /\ Reboot

StartAgain == Terminated /\ Reboot

Next == \/ ReaderStep \/ ExecutorStep \/ Fault \/ ShutdownSignal
        \/ Restart \/ Crash \/ StartAgain

Spec == Init /\ [][Next]_vars

(* Fairness: the runtime polls every ready task, the supervisor starts a   *)
(* terminated process again, and a rollup that is asked again and again    *)
(* answers with its last session at some point.  Nothing is assumed of     *)
(* faults.                                                                 *)
Fairness ==
    /\ WF_vars(ExecutorStep)
    /\ WF_vars(Running /\ FirmReaderSend)
    /\ WF_vars(Running /\ SoftReaderSend)
    /\ WF_vars(Running /\ FirmReaderReturns)
    /\ WF_vars(Running /\ SoftReaderReturns)
    /\ SF_vars(CreateSession /\ state'.session = Len(Sessions))
    /\ WF_vars(Restart)
    /\ WF_vars(StartAgain)

FairSpec == Spec /\ Fairness

-----------------------------------------------------------------------------
(* Types of the variables; a hash is a sequence of Sequencer heights.      *)
TypeOK ==
    /\ level \in CommitLevels
    /\ rollup \in [firm : Block, soft : Block, search : Nat, live : BOOLEAN]
    /\ state \in [session : 1..Len(Sessions), firm : Block, soft : Block,
                  search : Nat]
    /\ firmBlocks \in Seq(Nat)
    /\ softBlocks \in Seq(Nat)
    /\ firmReader \in Reader
    /\ softReader \in Reader
    /\ readersCancelled \in BOOLEAN
    /\ pc \in {"init", "firm", "soft", "join", "execute", "fetch", "update",
               "apply", "exited"}
    /\ cur \in [update : Updates \cup {"none"}, height : Nat, block : Block]
    /\ result \in {"none", "stopped", "denied", "error", "shutdown"}
    /\ DOMAIN blocksPendingFinalization \subseteq Nat
    /\ \A n \in DOMAIN blocksPendingFinalization :
         blocksPendingFinalization[n] \in Block

(* A block is canonical if every block of its chain was built from the one *)
(* Sequencer height its number stands for.                                 *)
Canonical(b) ==
    /\ b.number = Len(b.hash)
    /\ \A i \in 1..Len(b.hash) : b.hash[i] = CanonicalHeight(i)

(* Whatever is restarted, raced or retried, both commitments of the rollup *)
(* are built from each Sequencer block exactly once and in order           *)
(* (execute_soft and execute_firm with the stop height of the readers).    *)
CanonicalChain == Canonical(rollup.firm) /\ Canonical(rollup.soft)

(* The firm block belongs to the chain of the soft block, also between the *)
(* RPCs of execute_firm and execute_soft and across restarts at another    *)
(* commit level (update_commitment_state).                                 *)
FirmBelongsToSoftChain ==
    /\ rollup.firm.number <= rollup.soft.number
    /\ rollup.firm.hash = SubSeq(rollup.soft.hash, 1, rollup.firm.number)

Commitments(s) == [firm |-> s.firm, soft |-> s.soft, search |-> s.search]

(* The state Conductor tracks and that of the rollup differ by at most the *)
(* one update in flight (update_commitment_state and its retries).         *)
TracksRollup ==
    Running =>
      \/ Commitments(rollup) = Commitments(state)
      \/ pc \in {"update", "apply"} /\ Commitments(rollup) = Wanted

(* The cache of blocks awaiting their firm commitment holds exactly blocks *)
(* of the tracked soft chain above the firm block: a block taken from it   *)
(* by execute_firm is the block the rollup executed.                       *)
PendingMatchesSoftChain ==
    Running =>
      \A n \in DOMAIN blocksPendingFinalization :
        /\ n \in state.firm.number + 1 .. state.soft.number
        /\ blocksPendingFinalization[n] =
             [number |-> n, hash |-> SubSeq(state.soft.hash, 1, n)]

(* Soft execution runs at most lookAhead blocks ahead of firm execution,   *)
(* so the cache of pending blocks is bounded (is_spread_too_large).        *)
SoftLeadBounded ==
    Running /\ level = "SoftAndFirm" =>
      \A n \in DOMAIN blocksPendingFinalization :
        n <= state.firm.number + Sessions[session].lookAhead

(* When the executor polls its channels the next firm block is the one it  *)
(* expects and the next soft block leaves no gap, although firm blocks     *)
(* overtake soft ones in flight: the out-of-order bails of execute_soft    *)
(* and execute_firm are never taken.                                       *)
NoBlockOutOfOrder ==
    pc \in {"firm", "soft", "join"} =>
      /\ firmBlocks # << >> => Head(firmBlocks) = NextFirm
      /\ softBlocks # << >> => Head(softBlocks) <= NextSoft

(* No block past the end of the session is ever committed.                 *)
SessionEndRespected ==
    [][\A n \in {rollup.firm.number', rollup.soft.number'} :
          n \notin {rollup.firm.number, rollup.soft.number} =>
             Contains(session, n)]_vars

(* Firm commitments are never reverted; only firm-only mode, which         *)
(* re-executes on the firm block, ever lowers the soft commitment.         *)
CommitmentsNeverRevert ==
    [][/\ rollup'.firm.number >= rollup.firm.number
       /\ \A i \in 1..rollup.firm.number :
             rollup'.firm.hash[i] = rollup.firm.hash[i]
       /\ rollup'.soft.number >= rollup.soft.number \/ level = "FirmOnly"]_vars

(* Once faults, crashes and signals cease, and the executor does not lose  *)
(* the race between the soft reader's exit at the end of a session and its *)
(* last block for ever (handle_task_exit then returns an error), every     *)
(* Sequencer block the readers can still deliver is committed at each      *)
(* level Conductor runs with, also across the change of session: a full    *)
(* channel or a too large spread never blocks it for good.                 *)
Calm == [][~(Fault \/ ShutdownSignal \/ Crash)]_vars

AllCommitted ==
    LET last == NumberAt(Len(Sessions), LastHeight) IN
    /\ IsWithFirm(level) => rollup.firm.number = last
    /\ IsWithSoft(level) => rollup.soft.number = last

EventuallyAllCommitted ==
    <>Calm /\ <>[](result # "error") => <>[]AllCommitted

(* The rollup's commitments move one block at a time and never back, as    *)
(* CommitmentLedger promises to the users of the rollup, but for one kind  *)
(* of step: at level FirmOnly a firm block is executed on top of the last  *)
(* firm one and becomes the soft block too, also where a Conductor at      *)
(* another level has left the soft one further ahead (execute_firm,        *)
(* should_execute_firm_block, Update::ToSame).                             *)
Ledger == INSTANCE CommitmentLedger WITH firm <- rollup.firm.number,
                                         soft <- rollup.soft.number

RewindSoft ==
    /\ level = "FirmOnly" /\ rollup.firm.number < rollup.soft.number
    /\ rollup'.firm.number = rollup.firm.number + 1
    /\ rollup'.soft.number = rollup'.firm.number

RefinesLedger ==
    Ledger!Init /\ [][Ledger!Next \/ RewindSoft]_<<rollup.firm.number, rollup.soft.number>>

(* "No UpdateCommitmentStateRequest can ever decrease in either soft or    *)
(* firm block number" (specs/execution-api.md): no update that Conductor   *)
(* makes, at whatever level it is started, lowers one of the numbers.      *)
UpdatesNeverDecrease ==
    [][/\ rollup'.firm.number >= rollup.firm.number
       /\ rollup'.soft.number >= rollup.soft.number]_vars
=============================================================================
