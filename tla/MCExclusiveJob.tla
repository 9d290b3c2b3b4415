--------------------------- MODULE MCExclusiveJob ---------------------------
(***************************************************************************)
(* Model values, clocks and symmetry for the runs of ExclusiveJob.         *)
(***************************************************************************)
EXTENDS ExclusiveJob, TLC

(* All clocks agree, or one worker is as far ahead as allowed.             *)
Synchronous == [w \in Worker |-> 0]

OneAhead ==
    LET fast == CHOOSE w \in Worker : TRUE
    IN  [w \in Worker |-> IF w = fast THEN MaxSkew ELSE 0]

WorkerSymmetry == Permutations(Worker) \cup Permutations(Token)

TokenSymmetry == Permutations(Token)
=============================================================================
