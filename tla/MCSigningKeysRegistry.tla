------------------------ MODULE MCSigningKeysRegistry ------------------------
(* A chain for model checking SigningKeysRegistry: a second staking module    *)
(* appears in block 4, by which time it has events of its own, one key is     *)
(* added to both modules and two more events are of another key.              *)
EXTENDS SigningKeysRegistry

CONSTANTS t1, t2, k1, k2, mA, mB

MCAdded == {[module |-> mA, key |-> k1, block |-> 1],
            [module |-> mA, key |-> k1, block |-> 3],
            [module |-> mB, key |-> k1, block |-> 2],
            [module |-> mA, key |-> k2, block |-> 4],
            [module |-> mB, key |-> k2, block |-> 5]}

MCModulesAt == [b \in 0..MaxBlock |-> IF b < 4 THEN {mA} ELSE {mA, mB}]

=============================================================================
