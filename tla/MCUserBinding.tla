--------------------------- MODULE MCUserBinding ----------------------------
(* Values of the constants of UserBinding for TLC. *)
EXTENDS UserBinding, TLC

CONSTANTS ra, rb, v1, y1, o1, p1, f1

OneSave == {v1}
OneSync == {y1}
OneRotate == {o1}
OneRepair == {p1}
OneForm == {f1}
Nobody == {}
TwoRoles == {ra, rb}
RoleSymmetry == Permutations(TwoRoles)
=============================================================================
