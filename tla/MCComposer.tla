------------------------------ MODULE MCComposer ------------------------------
(* Four transactions: the second is larger than a bundle, the third does   *)
(* not fit beside the first, nor the fourth beside the third.              *)
EXTENDS Composer

SizeValue == <<1, 3, 2, 1>>
=============================================================================
