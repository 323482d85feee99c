-------------------------- MODULE CommitmentLedger --------------------------
(***************************************************************************)
(* What a rollup's users are promised of its two commitments: two block    *)
(* numbers, firm <= soft, that advance one block at a time, and neither of *)
(* which is ever decreased (specs/execution-api.md, UpdateCommitmentState).*)
(***************************************************************************)
EXTENDS Naturals

VARIABLES firm, soft

Init == firm = 0 /\ soft = 0

ExtendSoft  == soft' = soft + 1 /\ UNCHANGED firm
ConfirmFirm == firm < soft /\ firm' = firm + 1 /\ UNCHANGED soft
ExtendBoth  == firm = soft /\ firm' = firm + 1 /\ soft' = soft + 1

Next == ExtendSoft \/ ConfirmFirm \/ ExtendBoth

Spec == Init /\ [][Next]_<<firm, soft>>
=============================================================================
