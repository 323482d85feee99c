--------------------------- MODULE ConductorState ---------------------------
(***************************************************************************)
(* Conductor's view of the rollup: the parameters of an execution session  *)
(* and the two-way mapping between rollup block numbers and Sequencer      *)
(* heights (crates/astria-conductor/src/state.rs).                         *)
(*                                                                         *)
(* A session is a record                                                   *)
(*   rollupStart, rollupEnd  first and last rollup number (rollupEnd = 0   *)
(*                           stands for Option::None, the source type is   *)
(*                           Option<NonZeroU64>),                          *)
(*   seqStart                Sequencer height of block rollupStart,        *)
(*   lookAhead               celestia_search_height_max_look_ahead.        *)
(***************************************************************************)
EXTENDS Naturals, Sequences

CONSTANTS
    Sessions,   \* the sessions the rollup hands out, in rollup-number order
    MaxU64,     \* u64::MAX
    MaxHeight   \* largest Sequencer height (tendermint's Height is an i64)

SessionParameters == [rollupStart : Nat \ {0}, rollupEnd : Nat,
                      seqStart : Nat \ {0}, lookAhead : Nat]

(***************************************************************************)
(* Sessions cover disjoint, increasing ranges of rollup numbers, and only  *)
(* the last one may be open-ended.  Start heights are at least 1: CometBFT *)
(* has no block 0, and BlockCache refuses to start at height 0.            *)
(***************************************************************************)
ASSUME SessionsAssumption ==
    /\ Sessions \in Seq(SessionParameters)
    /\ Sessions # << >>
    /\ \A i \in 1..Len(Sessions) :
         \/ Sessions[i].rollupEnd = 0
         \/ Sessions[i].rollupEnd >= Sessions[i].rollupStart
    /\ \A i, j \in 1..Len(Sessions) : i < j =>
         /\ Sessions[i].rollupEnd # 0
         /\ Sessions[i].rollupEnd < Sessions[j].rollupStart

ASSUME WidthAssumption == MaxU64 \in Nat /\ MaxHeight \in Nat

-----------------------------------------------------------------------------
(* map_rollup_number_to_sequencer_height returns Err exactly when the      *)
(* number is not Mappable, and HeightAt otherwise.                         *)
Mappable(k, n) ==
    LET p == Sessions[k] IN
    /\ n + 1 <= MaxU64
    /\ p.rollupStart <= n + 1
    /\ p.seqStart + n <= MaxU64
    /\ p.rollupStart <= p.seqStart + n
    /\ (p.seqStart + n) - p.rollupStart <= MaxHeight

HeightAt(k, n) == (Sessions[k].seqStart + n) - Sessions[k].rollupStart

(* mutant: the two starts are swapped *)
NextExpectedSwapped(k, n) == (Sessions[k].rollupStart + n) - Sessions[k].seqStart

(* next_expected_{firm,soft}_sequencer_height of a commitment at number n  *)
NextExpected(k, n) == HeightAt(k, n) + 1

(* try_map_sequencer_height_to_rollup_height                               *)
TryMapHeight(k, h) ==
    /\ h >= Sessions[k].seqStart
    /\ (h - Sessions[k].seqStart) + Sessions[k].rollupStart <= MaxU64

NumberAt(k, h) == (h - Sessions[k].seqStart) + Sessions[k].rollupStart

(* rollup_end_block_number().is_some() and the two has_*_number_reached_   *)
(* stop_height predicates, which compare a commitment with the session end *)
HasStopHeight(k) == Sessions[k].rollupEnd # 0
HasReachedStopHeight(k, n) == HasStopHeight(k) /\ n >= Sessions[k].rollupEnd

(* mutant: off by one at the end of the session *)
PastStopHeightLate(k, h) ==
    HasStopHeight(k) /\ h > HeightAt(k, Sessions[k].rollupEnd) + 1

(* StateReceiver::sequencer_stop_height: is height h past the last height  *)
(* of the session?  A stop height that maps to 0 counts as none.           *)
PastStopHeight(k, h) ==
    /\ HasStopHeight(k)
    /\ HeightAt(k, Sessions[k].rollupEnd) # 0
    /\ h > HeightAt(k, Sessions[k].rollupEnd)

(* commit levels (config.rs) *)
CommitLevels == {"FirmOnly", "SoftOnly", "SoftAndFirm"}
IsWithFirm(level) == level \in {"FirmOnly", "SoftAndFirm"}
IsWithSoft(level) == level \in {"SoftOnly", "SoftAndFirm"}

(* State::try_from_execution_session: the commitments and the end that     *)
(* must be mappable before a session is accepted                           *)
TryFromExecutionSession(k, level, firmNumber, softNumber) ==
    /\ IsWithFirm(level) => Mappable(k, firmNumber)
    /\ IsWithSoft(level) => Mappable(k, softNumber)
    /\ HasStopHeight(k) => Mappable(k, Sessions[k].rollupEnd)

(* StateSender::try_update_commitment_state: only the updated levels are   *)
(* checked before the watched state is replaced                            *)
TryUpdateCommitmentState(k, level, firmNumber, softNumber) ==
    /\ IsWithFirm(level) => Mappable(k, firmNumber)
    /\ IsWithSoft(level) => Mappable(k, softNumber)

-----------------------------------------------------------------------------
(* Reference: the Sequencer height every rollup number stands for, whatever *)
(* session, restart or commit level produced it.                           *)
Contains(k, n) ==
    /\ Sessions[k].rollupStart <= n
    /\ HasStopHeight(k) => n <= Sessions[k].rollupEnd

CanonicalHeight(n) ==
    LET k == CHOOSE j \in 1..Len(Sessions) : Contains(j, n) IN HeightAt(k, n)
=============================================================================
