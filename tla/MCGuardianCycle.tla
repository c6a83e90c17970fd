--------------------------- MODULE MCGuardianCycle ---------------------------
(* Chains for model checking GuardianCycle.                                 *)
EXTENDS GuardianCycle, Sequences, TLC

CONSTANTS w1, w2, c1, c2, k1, k2

\* Slots of one method are interchangeable; only safety is checked with them.
SlotSymmetry == Permutations({c1, c2}) \cup Permutations({k1, k2})

MCDsms == {"dsm4", "dsm5", "dsm5b"}
MCV5Dsms == {"dsm5", "dsm5b"}
MCWallets == {w1, w2}
MCModules == 1..2
OneModule == {1}

Calm == [ number |-> 11, dsm |-> "dsm4", delegate |-> w1, guardian |-> TRUE,
          threat |-> FALSE, paused |-> FALSE, root |-> 1,
          changed |-> [m \in Modules |-> 1], bad |-> {}, blocked |-> {}, poor |-> {} ]

At(n) == [Calm EXCEPT !.number = n]
V5(b) == [b EXCEPT !.dsm = "dsm5", !.delegate = w2]
V5b(b) == [V5(b) EXCEPT !.dsm = "dsm5b"]
Threatened(b) == [b EXCEPT !.threat = TRUE]

\* The DSM is upgraded, and the delegate takes over from the legacy wallet.
Upgrade == << At(11), V5(At(12)) >>
\* Rotation after the upgrade; a threat that a running key task is late for; a
\* module whose keys are unvetted while another moves on; a guardian listed late.
Rotation == Append(Upgrade, [V5(At(13)) EXCEPT !.delegate = w1])
LateThreat == << At(11), At(12), Threatened(At(13)) >>
UpgradeThreat == << At(11), Threatened(V5(At(12))), Threatened(V5(At(13))) >>
\* The same with one module open, and the delegate revoked when the pause is due.
UpgradeRevoked == << [At(11) EXCEPT !.blocked = {2}], Threatened(V5(At(12))),
                     [Threatened(V5(At(13))) EXCEPT !.delegate = None] >>
\* A pause lands, here in a block that another guardian's pause reached too.
PauseLands == << Threatened(At(11)), [Threatened(At(12)) EXCEPT !.paused = TRUE],
                 [Threatened(V5(At(13))) EXCEPT !.paused = TRUE] >>
UnvetOne == << [At(11) EXCEPT !.bad = {1}, !.poor = {w1}],
               [V5(At(12)) EXCEPT !.bad = {1}], V5(At(13)) >>
Listed == << [At(11) EXCEPT !.guardian = FALSE], At(12), [At(20) EXCEPT !.root = 2] >>
\* A new signing window, a new deposit root, a change in one module.
Quiet == << At(18), At(19), At(20) >>
Moving == << At(11), [At(12) EXCEPT !.root = 2],
             [At(13) EXCEPT !.root = 2, !.changed[1] = 2] >>
\* A delegate revoked for a block; a block replaced by a sibling (reorg).
Revoked == << V5(At(11)), [V5(At(12)) EXCEPT !.delegate = None], V5(At(13)) >>
Reorg == << At(11), At(12), [At(12) EXCEPT !.changed[1] = 2, !.blocked = {2}] >>

\* An unvetting that is overtaken by an upgrade, with one module open.
Outlasted == << [At(11) EXCEPT !.bad = {1}, !.blocked = {2}],
                [V5(At(12)) EXCEPT !.blocked = {2}],
                [V5(At(13)) EXCEPT !.delegate = None] >>

\* A DSM replaced by one of the same version, with a threat, while the key task
\* of the block before runs on.
Replaced == << [V5(At(11)) EXCEPT !.blocked = {2}], Threatened(V5b(At(12))),
               [V5b(At(13)) EXCEPT !.paused = TRUE] >>

RaceChains == {Outlasted, Rotation, Replaced, UpgradeRevoked, PauseLands, UnvetOne,
               Revoked, Quiet, Moving, Reorg}
LiveChains == {LateThreat, UpgradeThreat, Quiet, Rotation, Revoked, Listed, UnvetOne}
\* Key tasks and transactions that outlast their timeout, on one of the chains.
RaceTimeouts == {Outlasted} \X {"handleKeys", "transactions"}
UpgradeOnly == {Upgrade}

=============================================================================
