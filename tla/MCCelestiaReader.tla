-------------------------- MODULE MCCelestiaReader --------------------------
(* Instances of CelestiaReader for TLC. *)
EXTENDS CelestiaReader

Valid(hs) == {[height |-> h, valid |-> TRUE] : h \in hs}

(* A metadata blob that the Sequencer did not commit to. *)
Foreign(h) == {[height |-> h, valid |-> FALSE]}

(* Blocks 1 and 2 are posted together, 3 later; then the relayer starts    *)
(* again from 1 and posts 2, 3 again before it goes on with 4.             *)
PostedTwice ==
    << Valid({1, 2}), Valid({3}), Valid({2}) \cup Foreign(3), Valid({3, 4}), Valid({5}) >>
=============================================================================
