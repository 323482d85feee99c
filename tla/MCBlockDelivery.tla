-------------------------- MODULE MCBlockDelivery --------------------------
EXTENDS BlockDelivery

Submission(id, data) == [kind |-> "submission", id |-> id, data |-> data]
Lock(id, data) == [kind |-> "lock", id |-> id, data |-> data]

(* two rollups with the same data, and a third with seven submissions beside*)
(* deposits for the other two                                               *)
SomeTransactions ==
    {<<Submission(3, 1)>>,
     <<Submission(2, 1)>>,
     <<Lock(3, 1), Lock(2, 1)>>
         \o [k \in 1..7 |-> Submission(1, IF k < 4 THEN 1 ELSE k)]}

(* data for a rollup that the relayer includes and for one it does not *)
ForeignTransaction == <<Submission(1, 9), Submission(3, 9)>>
==============================================================================
