---------------------------- MODULE MCConductor -----------------------------
(* Instances of Conductor for TLC. *)
EXTENDS Conductor

(* Two sessions: rollup blocks 1..3 are Sequencer heights 2..4, and rollup *)
(* blocks 4.. are Sequencer heights 7.. .                                  *)
TwoSessions ==
    << [rollupStart |-> 1, rollupEnd |-> 3, seqStart |-> 2, lookAhead |-> 2],
       [rollupStart |-> 4, rollupEnd |-> 0, seqStart |-> 7, lookAhead |-> 1] >>

(* Two Sequencer blocks share a Celestia block, and 3 came after 4. *)
Inclusion == [h \in 0..LastHeight |-> IF h = 3 THEN 4 ELSE (h + 1) \div 2]
=============================================================================
