-------------------------- MODULE MCDepositsRegistry --------------------------
(* A chain for model checking DepositsRegistry: a first block without         *)
(* deposits, two deposits in one block, one that never becomes final.         *)
EXTENDS DepositsRegistry

CONSTANTS t1, t2
MCDeposits == <<2, 2, 3, 4>>

=============================================================================
