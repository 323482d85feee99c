------------------------------ MODULE MCLedger ------------------------------
(* Instances of Ledger for TLC. *)
EXTENDS Ledger

(* a user, who may hold the keys of the bridge account and then needs      *)
(* funds to cover the amounts it unlocks, and the account that becomes it  *)
SampleBalance ==
    [x \in Accounts |-> [asset \in Assets |->
        IF asset = Foreign THEN 0 ELSE IF x = "b" THEN 1 ELSE 2]]

SampleOutside == [asset \in Assets |-> IF asset = Foreign THEN 1 ELSE 0]
=============================================================================
