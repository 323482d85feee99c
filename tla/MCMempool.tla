----------------------------- MODULE MCMempool ------------------------------
(* Instances of Mempool for TLC.                                           *)
EXTENDS Mempool

Tx(id, a, n, c) == [id |-> id, acct |-> a, nonce |-> n, cost |-> c]

(* One account, with two transactions that compete for nonce 1.            *)
Competing == {Tx("a0", "a", 0, 1), Tx("a1", "a", 1, 2), Tx("a1x", "a", 1, 1)}
=============================================================================
