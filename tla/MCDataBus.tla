------------------------------ MODULE MCDataBus ------------------------------
(* Three messages, in three loads that have all seven kinds; two wallets.    *)
EXTENDS DataBus, TLC

CONSTANTS m1, m2, m3, w1, w2

MCMessages == {m1, m2, m3}
MCWallets == {w1, w2}

Of(t, v) == [type |-> t, dsmVersion |-> v]
Load(a, b, c) == m1 :> a @@ m2 :> b @@ m3 :> c

\* The messages of a block before and after the upgrade, and of one across it.
MCLoads == { Load(Of("deposit", 4), Of("unvet", 4), Of("ping", 0)),
             Load(Of("deposit", 5), Of("unvet", 5), Of("pause", 5)),
             Load(Of("deposit", 4), Of("pause", 4), Of("pause", 5)) }

=============================================================================
