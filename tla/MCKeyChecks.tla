----------------------------- MODULE MCKeyChecks -----------------------------
(* Three histories for model checking KeyChecks: a vetted key; the same key  *)
(* funded with the credentials a module had before their rotation; and a     *)
(* copy of it, of another operator and without an event.  The last two leave *)
(* one move less.                                                            *)
EXTENDS KeyChecks, TLC

CONSTANTS mA, mB, o1, o2, o3, k1, k2, wcA, wcB, wcOld, wcX

MCModuleSeq   == <<mA, mB>>
MCModuleOf    == (o1 :> mA) @@ (o2 :> mA) @@ (o3 :> mB)
MCOperatorSeq == <<o1, o2, o3>>
MCWCOf        == (mA :> wcA) @@ (mB :> wcB)
MCLegacyWC    == (mA :> wcOld) @@ (mB :> None)

MCNewKeys == {[pub |-> k1, valid |-> TRUE], [pub |-> k2, valid |-> TRUE],
              [pub |-> k2, valid |-> FALSE]}

MCForeignDeposits ==
    {[pub |-> k1, wc |-> wcX, valid |-> v] : v \in BOOLEAN}
        \cup {[pub |-> k1, wc |-> w, valid |-> TRUE] : w \in {wcB, wcOld}}

Empty == [o \in Operators |-> 0]
Fresh == [keys |-> [o \in Operators |-> <<>>], used |-> Empty, vetted |-> Empty,
          added |-> {}, deposits |-> {}, block |-> 1, moves |-> 0]

K1 == <<[pub |-> k1, valid |-> TRUE]>>

Settled == [Fresh EXCEPT
    !.keys[o1] = K1, !.vetted[o1] = 1, !.block = 2,
    !.added = {[op |-> o1, pub |-> k1, block |-> 1, log |-> 0]}]

Rotated == [Settled EXCEPT
    !.used[o1] = 1, !.moves = 1,
    !.deposits = {[pub |-> k1, wc |-> wcOld, valid |-> TRUE, block |-> 1, log |-> 0, by |-> o1]}]

Unknown == [Settled EXCEPT !.keys[o3] = K1, !.moves = 1]

MCHistories == {Settled, Rotated, Unknown}

=============================================================================
