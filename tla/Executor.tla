------------------------------ MODULE Executor ------------------------------
(***************************************************************************)
(* Conductor's executor task (crates/astria-conductor/src/executor/mod.rs) *)
(* with the two channels it drains, the two reader tasks that fill them    *)
(* (here as ordered feeds; SequencerReader and CelestiaReader show, by     *)
(* refining OrderedFeed, that the readers are such feeds) and the rollup   *)
(* node it drives over the execution API (external).                       *)
(*                                                                         *)
(* The executor is one biased select! loop: it polls the firm channel, the *)
(* soft channel and the set of reader tasks in this order, and the readers *)
(* run on other threads between two polls.  pc is the branch polled next,  *)
(* or the RPC the executor is awaiting:                                    *)
(*   "init"    create_execution_session                                    *)
(*   "firm", "soft", "join"   the branches of run_event_loop               *)
(*   "execute", "fetch", "update"   an RPC not yet answered                *)
(*   "apply"   the rollup has applied the update, the answer is on its way *)
(*   "exited"  run_until_stopped_or_stop_height_reached returned `result'  *)
(*                                                                         *)
(* A rollup block is [number, hash]; its hash is the sequence of Sequencer *)
(* heights executed to build the chain that ends in it.                    *)
(***************************************************************************)
EXTENDS ConductorState

CONSTANTS
    LastHeight,     \* bound: height of the newest Sequencer block
    CelestiaOf,     \* Celestia height at which a Sequencer height is included
    FirmCapacity,   \* capacity of the firm channel (16)
    SoftCapacity    \* capacity of the soft channel in soft-only mode (1024)

ASSUME ExecutorAssumption ==
    /\ LastHeight \in Nat
    /\ CelestiaOf \in [0..LastHeight -> Nat]
    /\ FirmCapacity \in Nat \ {0}
    /\ SoftCapacity \in Nat \ {0}

VARIABLES
    level,      \* config.execution_commit_level
    rollup,     \* external: commitment state, and whether it still honours
                \*   the session this executor was given
    state,      \* StateSender: session index and tracked commitment state
    blocksPendingFinalization,
    firmBlocks, softBlocks,     \* the channels
    firmReader, softReader,     \* reader_tasks: [task, next height to send]
    readersCancelled,           \* reader_cancellation_token
    pc, cur, result

envVars  == <<firmReader, softReader>>
loopVars == <<blocksPendingFinalization, firmBlocks, softBlocks, readersCancelled>>
vars == <<level, rollup, state, blocksPendingFinalization, firmBlocks,
          softBlocks, firmReader, softReader, readersCancelled, pc, cur, result>>

Genesis == [number |-> 0, hash |-> << >>]
Block == [number : Nat, hash : Seq(Nat)]
Idle == [update |-> "none", height |-> 0, block |-> Genesis]
Updates == {"OnlyFirm", "OnlySoft", "ToSame"}
Reader == [task : {"none", "run", "ok", "err"}, next : Nat]
NoReader == [task |-> "none", next |-> 0]
NoState == [session |-> 1, firm |-> Genesis, soft |-> Genesis, search |-> 0]

session == state.session
NextFirm == NextExpected(session, state.firm.number)
NextSoft == NextExpected(session, state.soft.number)

-----------------------------------------------------------------------------
(* create_block_channels *)
SoftChannelSize ==
    CASE level = "FirmOnly"    -> IF Sessions[session].lookAhead = 0 THEN 1
                                                    ELSE Sessions[session].lookAhead
      [] level = "SoftAndFirm" -> Sessions[session].lookAhead
      [] OTHER                 -> SoftCapacity

(* Executor::init returns Err for a session whose numbers cannot be mapped *)
(* or, in soft-and-firm mode, for a look-ahead of 0                        *)
SessionAccepted(j) ==
    /\ TryFromExecutionSession(j, level, rollup.firm.number, rollup.soft.number)
    /\ level = "SoftAndFirm" => Sessions[j].lookAhead > 0

Exit(r) == pc' = "exited" /\ result' = r /\ cur' = Idle

(* Executor::init after create_execution_session_with_retry: the rollup    *)
(* may answer with any of its sessions.                                    *)
CreateSession ==
    /\ pc = "init"
    /\ \E j \in 1..Len(Sessions) :
        /\ rollup' = [rollup EXCEPT !.live = TRUE]
        /\ IF SessionAccepted(j)
           THEN /\ state' = [session |-> j, firm |-> rollup.firm,
                             soft |-> rollup.soft, search |-> rollup.search]
                /\ firmReader' = IF IsWithFirm(level)
                     THEN [task |-> "run",
                           next |-> NextExpected(j, rollup.firm.number)]
                     ELSE NoReader
                /\ softReader' = IF IsWithSoft(level)
                     THEN [task |-> "run",
                           next |-> NextExpected(j, rollup.soft.number)]
                     ELSE NoReader
                /\ pc' = "firm" /\ cur' = Idle /\ UNCHANGED result
           ELSE Exit("error") /\ UNCHANGED <<state, firmReader, softReader>>
    /\ blocksPendingFinalization' = << >>
    /\ firmBlocks' = << >>
    /\ softBlocks' = << >>
    /\ readersCancelled' = FALSE
    /\ UNCHANGED level

(* the rollup refuses to create a session with a code that is not retried  *)
RefuseSession ==
    /\ pc = "init"
    /\ \E r \in {"denied", "error"} : Exit(r)
    /\ UNCHANGED <<level, rollup, state, loopVars, envVars>>

-----------------------------------------------------------------------------
(* The readers.  Each sends Sequencer heights in order, starting at the    *)
(* height expected when the executor started, and stops after the stop     *)
(* height.  The soft reader may skip heights the watched state has passed. *)
FirmReaderSend ==
    /\ firmReader.task = "run"
    /\ ~readersCancelled
    /\ firmReader.next <= LastHeight
    /\ ~PastStopHeight(session, firmReader.next)
    /\ Len(firmBlocks) < FirmCapacity
    /\ firmBlocks' = Append(firmBlocks, firmReader.next)
    /\ firmReader' = [firmReader EXCEPT !.next = @ + 1]
    /\ UNCHANGED <<level, rollup, state, blocksPendingFinalization, softBlocks,
                   softReader, readersCancelled, pc, cur, result>>

SoftReaderSend ==
    /\ softReader.task = "run"
    /\ ~readersCancelled
    /\ softReader.next <= LastHeight
    /\ ~PastStopHeight(session, softReader.next)
    /\ Len(softBlocks) < SoftChannelSize
    /\ softBlocks' = Append(softBlocks, softReader.next)
    /\ \E h \in {softReader.next + 1} \cup softReader.next + 1 .. NextSoft :
         softReader' = [softReader EXCEPT !.next = h]
    /\ UNCHANGED <<level, rollup, state, blocksPendingFinalization, firmBlocks,
                   firmReader, readersCancelled, pc, cur, result>>

(* mutant: skips one height too many *)
SoftReaderSkipsOneMore ==
    /\ softReader.task = "run"
    /\ \E h \in softReader.next + 1 .. NextSoft + 1 :
         softReader' = [softReader EXCEPT !.next = h]
    /\ UNCHANGED <<level, rollup, state, loopVars, firmReader, pc, cur, result>>

(* the soft reader observes the watched state and drops obsolete heights   *)
SoftReaderSkip ==
    /\ softReader.task = "run"
    /\ \E h \in softReader.next + 1 .. NextSoft :
         softReader' = [softReader EXCEPT !.next = h]
    /\ UNCHANGED <<level, rollup, state, loopVars, firmReader, pc, cur, result>>

(* a reader task returns Ok: its last block is in the channel, or its      *)
(* token was cancelled                                                     *)
ReaderReturns(r) ==
    r.task = "run" /\ (PastStopHeight(session, r.next) \/ readersCancelled)

FirmReaderReturns ==
    /\ ReaderReturns(firmReader)
    /\ firmReader' = [firmReader EXCEPT !.task = "ok"]
    /\ UNCHANGED <<level, rollup, state, loopVars, softReader, pc, cur, result>>

SoftReaderReturns ==
    /\ ReaderReturns(softReader)
    /\ softReader' = [softReader EXCEPT !.task = "ok"]
    /\ UNCHANGED <<level, rollup, state, loopVars, firmReader, pc, cur, result>>

(* fault: a reader task returns Err or panics (a fetch error, for one)     *)
FirmReaderFails ==
    /\ firmReader.task = "run"
    /\ firmReader' = [firmReader EXCEPT !.task = "err"]
    /\ UNCHANGED <<level, rollup, state, loopVars, softReader, pc, cur, result>>

SoftReaderFails ==
    /\ softReader.task = "run"
    /\ softReader' = [softReader EXCEPT !.task = "err"]
    /\ UNCHANGED <<level, rollup, state, loopVars, firmReader, pc, cur, result>>

-----------------------------------------------------------------------------
(* mutant: the spread is checked in every mode *)
IsSpreadTooLargeInAnyMode == NextSoft >= NextFirm + Sessions[session].lookAhead

(* is_spread_too_large: the subtraction saturates at 0 *)
IsSpreadTooLarge ==
    /\ IsWithFirm(level)
    /\ IF NextSoft >= NextFirm THEN NextSoft - NextFirm >= Sessions[session].lookAhead
                               ELSE 0 >= Sessions[session].lookAhead

(* should_execute_firm_block *)
ShouldExecuteFirmBlock ==
    \/ level = "FirmOnly"
    \/ level = "SoftAndFirm" /\ NextFirm = NextSoft

(* execute_firm up to its first await, for a block taken off the channel *)
ExecuteFirm(h) ==
    LET n == NumberAt(session, h) IN
    IF h # NextFirm \/ ~TryMapHeight(session, h)
    THEN Exit("error") /\ UNCHANGED blocksPendingFinalization
    ELSE /\ UNCHANGED result
         /\ \/ /\ ShouldExecuteFirmBlock
               /\ pc' = "execute"
               /\ cur' = [update |-> "ToSame", height |-> h, block |-> Genesis]
               /\ UNCHANGED blocksPendingFinalization
            \/ /\ ~ShouldExecuteFirmBlock
               /\ n \in DOMAIN blocksPendingFinalization
               /\ pc' = "update"
               /\ cur' = [update |-> "OnlyFirm", height |-> h,
                          block |-> blocksPendingFinalization[n]]
               /\ blocksPendingFinalization' =
                    [m \in DOMAIN blocksPendingFinalization \ {n} |->
                        blocksPendingFinalization[m]]
            \/ /\ ~ShouldExecuteFirmBlock
               /\ n \notin DOMAIN blocksPendingFinalization
               /\ pc' = "fetch"
               /\ cur' = [update |-> "OnlyFirm", height |-> h, block |-> Genesis]
               /\ UNCHANGED blocksPendingFinalization

(* mutant: stale blocks are executed again *)
ExecuteSoftStale(h) ==
    /\ pc' = "execute"
    /\ cur' = [update |-> "OnlySoft", height |-> h, block |-> Genesis]
    /\ UNCHANGED result

(* execute_soft up to its first await: older blocks are dropped, a gap is  *)
(* fatal                                                                   *)
ExecuteSoft(h) ==
    \/ /\ h < NextSoft
       /\ pc' = "firm"
       /\ UNCHANGED <<cur, result>>
    \/ /\ h > NextSoft \/ (h = NextSoft /\ ~TryMapHeight(session, h))
       /\ Exit("error")
    \/ /\ h = NextSoft /\ TryMapHeight(session, h)
       /\ pc' = "execute"
       /\ cur' = [update |-> "OnlySoft", height |-> h, block |-> Genesis]
       /\ UNCHANGED result

(* the three branches of run_event_loop, in the order of the biased select *)
PollFirm ==
    /\ pc = "firm"
    /\ IF firmBlocks = << >>
       THEN pc' = "soft" /\ UNCHANGED <<cur, result, firmBlocks, blocksPendingFinalization>>
       ELSE firmBlocks' = Tail(firmBlocks) /\ ExecuteFirm(Head(firmBlocks))
    /\ UNCHANGED <<level, rollup, state, softBlocks, envVars, readersCancelled>>

PollSoft ==
    /\ pc = "soft"
    /\ IF softBlocks = << >> \/ IsSpreadTooLarge
       THEN pc' = "join" /\ UNCHANGED <<cur, result, softBlocks>>
       ELSE softBlocks' = Tail(softBlocks) /\ ExecuteSoft(Head(softBlocks))
    /\ UNCHANGED <<level, rollup, state, blocksPendingFinalization, firmBlocks,
                   envVars, readersCancelled>>

(* handle_task_exit for the reader joined by reader_tasks.join_next.       *)
(* Cancelling also closes both channels; blocks in them stay readable.     *)
JoinFirmReader ==
    /\ pc = "join"
    /\ firmReader.task \in {"ok", "err"}
    /\ firmReader' = NoReader
    /\ IF HasReachedStopHeight(session, state.firm.number)
       THEN readersCancelled' = TRUE /\ pc' = "firm" /\ UNCHANGED <<cur, result>>
       ELSE Exit("error") /\ UNCHANGED readersCancelled
    /\ UNCHANGED <<level, rollup, state, blocksPendingFinalization, firmBlocks,
                   softBlocks, softReader>>

JoinSoftReader ==
    /\ pc = "join"
    /\ softReader.task \in {"ok", "err"}
    /\ softReader' = NoReader
    /\ IF HasReachedStopHeight(session, state.soft.number)
       THEN pc' = "firm" /\ UNCHANGED <<cur, result>>
       ELSE Exit("error")
    /\ UNCHANGED <<level, rollup, state, loopVars, firmReader>>

(* no reader to join: wait for the next wake-up, or leave the loop through *)
(* the else branch once every reader was joined                            *)
JoinNothing ==
    /\ pc = "join"
    /\ firmReader.task \in {"none", "run"}
    /\ softReader.task \in {"none", "run"}
    /\ IF firmReader.task = "none" /\ softReader.task = "none"
       THEN Exit("stopped")
       ELSE pc' = "firm" /\ UNCHANGED <<cur, result>>
    /\ UNCHANGED <<level, rollup, state, loopVars, envVars>>

-----------------------------------------------------------------------------
(* execute_block: the rollup builds a block on the tracked soft (firm)     *)
(* head; a response with another number breaks the contract.               *)
Parent == IF cur.update = "OnlySoft" THEN state.soft ELSE state.firm

ExecuteBlock ==
    /\ pc = "execute"
    /\ rollup.live
    /\ pc' = "update"
    /\ cur' = [cur EXCEPT !.block = [number |-> Parent.number + 1,
                                     hash |-> Append(Parent.hash, cur.height)]]
    /\ UNCHANGED <<level, rollup, state, loopVars, envVars, result>>

(* mutant: the head of the chain is fetched, whatever was asked for *)
FetchHead ==
    /\ pc = "fetch"
    /\ cur' = [cur EXCEPT !.block = rollup.soft]
    /\ pc' = "update"
    /\ UNCHANGED <<level, rollup, state, loopVars, envVars, result>>

(* get_executed_block_metadata_with_retry: the block at this number on the *)
(* rollup's chain                                                          *)
FetchExecutedBlock ==
    /\ pc = "fetch"
    /\ LET n == NumberAt(session, cur.height) IN
       /\ n <= rollup.soft.number
       /\ cur' = [cur EXCEPT !.block =
                    [number |-> n, hash |-> SubSeq(rollup.soft.hash, 1, n)]]
    /\ pc' = "update"
    /\ UNCHANGED <<level, rollup, state, loopVars, envVars, result>>

(* the commitment state update_commitment_state asks for *)
Wanted ==
    [firm |-> IF cur.update = "OnlySoft" THEN state.firm ELSE cur.block,
     soft |-> IF cur.update = "OnlyFirm" THEN state.soft ELSE cur.block,
     search |-> IF cur.update = "OnlySoft" THEN state.search
                                           ELSE CelestiaOf[cur.height]]

UpdateLevel == CASE cur.update = "OnlyFirm" -> "FirmOnly"
                 [] cur.update = "OnlySoft" -> "SoftOnly"
                 [] OTHER                   -> "SoftAndFirm"

(* update_commitment_state: CommitmentState::build refuses a firm number   *)
(* above the soft one, then the rollup applies the state                   *)
UpdateCommitmentState ==
    /\ pc = "update"
    /\ IF Wanted.firm.number > Wanted.soft.number
       THEN Exit("error") /\ UNCHANGED rollup
       ELSE /\ rollup.live
            /\ rollup' = [firm |-> Wanted.firm, soft |-> Wanted.soft,
                          search |-> Wanted.search, live |-> TRUE]
            /\ pc' = "apply"
            /\ UNCHANGED <<cur, result>>
    /\ UNCHANGED <<level, state, loopVars, envVars>>

(* mutant: the search height of the answer is dropped *)
ApplyDropsSearchHeight ==
    /\ pc = "apply"
    /\ state' = [state EXCEPT !.firm = Wanted.firm, !.soft = Wanted.soft]
    /\ pc' = "firm" /\ cur' = Idle
    /\ UNCHANGED <<level, rollup, loopVars, envVars, result>>

(* the answer arrives: the watched state is replaced by it, and execute_   *)
(* soft remembers the block for its firm commitment                        *)
ApplyCommitmentState ==
    /\ pc = "apply"
    /\ IF TryUpdateCommitmentState(session, UpdateLevel, Wanted.firm.number,
                                   Wanted.soft.number)
       THEN /\ state' = [session |-> session, firm |-> Wanted.firm,
                         soft |-> Wanted.soft, search |-> Wanted.search]
            /\ blocksPendingFinalization' =
                 IF cur.update = "OnlySoft"
                 THEN LET n == NumberAt(session, cur.height) IN
                      [m \in DOMAIN blocksPendingFinalization \cup {n} |->
                         IF m = n THEN cur.block ELSE blocksPendingFinalization[m]]
                 ELSE blocksPendingFinalization
            /\ pc' = "firm" /\ cur' = Idle /\ UNCHANGED result
       ELSE Exit("error") /\ UNCHANGED <<state, blocksPendingFinalization>>
    /\ UNCHANGED <<level, rollup, firmBlocks, softBlocks, readersCancelled, envVars>>

(* the answer is lost with a retryable code: the request is sent again     *)
RetryUpdate ==
    /\ pc = "apply"
    /\ pc' = "update"
    /\ UNCHANGED <<level, rollup, state, loopVars, envVars, cur, result>>

(* a session the rollup has invalidated is answered with PermissionDenied  *)
PermissionDenied ==
    /\ pc \in {"execute", "update"}
    /\ ~rollup.live
    /\ Exit("denied")
    /\ UNCHANGED <<level, rollup, state, loopVars, envVars>>

(* fault: an RPC fails with a code that is not retried, the block it       *)
(* returns has the wrong number, or its answer cannot be decoded           *)
RpcFails ==
    /\ pc \in {"execute", "fetch", "update", "apply"}
    /\ Exit("error")
    /\ UNCHANGED <<level, rollup, state, loopVars, envVars>>

(* external: the rollup invalidates the session it handed out              *)
InvalidateSession ==
    /\ rollup.live
    /\ rollup' = [rollup EXCEPT !.live = FALSE]
    /\ UNCHANGED <<level, state, loopVars, envVars, pc, cur, result>>

(* the shutdown token drops run_event_loop at whatever it is awaiting      *)
ShutdownSignal ==
    /\ pc # "exited"
    /\ Exit("shutdown")
    /\ UNCHANGED <<level, rollup, state, loopVars, envVars>>

-----------------------------------------------------------------------------
(* Initialized::shutdown joins the readers before the executor returns     *)
Running == pc \notin {"init", "exited"}

ReaderStep == /\ Running
              /\ \/ FirmReaderSend \/ SoftReaderSend \/ SoftReaderSkip
                 \/ FirmReaderReturns \/ SoftReaderReturns

ExecutorStep == \/ CreateSession \/ PollFirm \/ PollSoft
                \/ JoinFirmReader \/ JoinSoftReader \/ JoinNothing
                \/ ExecuteBlock \/ FetchExecutedBlock
                \/ UpdateCommitmentState \/ ApplyCommitmentState
                \/ PermissionDenied

Fault == \/ RefuseSession
         \/ Running /\ (FirmReaderFails \/ SoftReaderFails)
         \/ RetryUpdate \/ RpcFails \/ InvalidateSession
=============================================================================
