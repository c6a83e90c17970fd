---------------------------- MODULE MCDepositSync ----------------------------
(* Six blocks with seven deposits, two of them alike: as many as a tree of    *)
(* depth three takes.                                                         *)
EXTENDS DepositSync

CONSTANTS x, y

MCNodes == << x, y, x, x, y, y, x >>

MCDepositCount == [b \in 0..6 |-> << 0, 1, 3, 3, 6, 6, 7 >>[b + 1]]

=============================================================================
