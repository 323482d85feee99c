------------------------------- MODULE MCApp --------------------------------
(* Instances of App for TLC. *)
EXTENDS App

Tx(signer, nonce, group, data, act, arg) ==
    [signer |-> signer, nonce |-> nonce, group |-> group, data |-> data, act |-> act, arg |-> arg]

(* A deposit and a validator update that exceed the block's rollup data    *)
(* together, a currency pair that is removed and added again, the update   *)
(* in a higher group than the removal whose nonce is before its own, and a *)
(* fee change that must wait for the nonces of the others.                 *)
SampleTxs ==
    {Tx("a", 0, 4, 1, "lock", "d0"), Tx("sudo", 1, 4, 1, "update", "v3"),
     Tx("sudo", 0, 2, 0, "remove", "p"), Tx("sudo", 1, 2, 0, "add", "p"),
     Tx("sudo", 2, 2, 0, "fee", 2)}

SampleEvidence == {{}, {"v2"}}

GenesisState ==
    [height |-> 0, nonce |-> [x \in {"a", "sudo"} |-> 0],
     balance |-> [x \in {"a", "sudo"} |-> IF x = SudoAddress THEN 0 ELSE 2],
     fee |-> 1, pairs |-> << >>, validators |-> Validators, enableHeight |-> 0,
     upgraded |-> FALSE]
=============================================================================
