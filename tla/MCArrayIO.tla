----------------------------- MODULE MCArrayIO -----------------------------
(* Fields for ArrayIO with Q_MIN = 4: voids, values that restore_mass() raises *)
(* and values it leaves alone, in every position.                             *)
EXTENDS ArrayIO

MCFields == {
  [v \in Names |-> [j \in Rows |-> IF v = "q" THEN f[j - Row0 + 1] ELSE 10 + j]] :
    f \in {<<4, 6, 9, 0, 5>>, <<5, 4, 6, 8, 7>>, <<9, 5, 2, 7, 6>>}}

=============================================================================
