----------------------------- MODULE MCTempItem -----------------------------
(* Values of the constants of TempItem for TLC. *)
EXTENDS TempItem, TLC

CONSTANTS t1, g1, a1, a2, m1, d1

OneTemp == {t1}
OneCard == {g1}
TwoApprovals == {a1, a2}
OneMerge == {m1}
OneDelete == {d1}
Moderators == Permutations(TwoApprovals)
=============================================================================
