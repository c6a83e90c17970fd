------------------------------ MODULE KeyChecks ------------------------------
(***************************************************************************)
(* What the guardian checks in the keys of the operators, and what its     *)
(* messages then do to them: StakingModuleGuardService, the duplicates     *)
(* checker, UnvettingService and the decisions of GuardianService.         *)
(*                                                                         *)
(* Operators add, remove and get keys vetted, anybody deposits for any     *)
(* key, and the contracts act on the guardian's messages.  The guardian    *)
(* reads everything at the end of one block, so a reading is one step      *)
(* here; GuardianCycle has the awaits inside it.  Its messages may arrive  *)
(* many steps later.  They carry the nonce of the module, attestations     *)
(* also the deposit root, and both only move forward: a message is         *)
(* forgotten when what it carries is no longer current, since the contract *)
(* refuses it from then on.                                                *)
(***************************************************************************)
EXTENDS Integers, Sequences, FiniteSets

CONSTANTS
    Modules,       \* staking modules
    ModuleSeq,     \* their order in the answer of Keys API
    Operators,     \* node operators
    ModuleOf,      \* ModuleOf[o]: the module of operator o
    OperatorSeq,   \* the order of their keys in the answer of Keys API
    Pubs,          \* public keys
    WCOf,          \* WCOf[m]: buildModuleWc for module m
    LegacyWC,      \* LegacyWC[m]: the credentials of m before their rotation
    LegacyUntil,   \* validUntilBlock of the legacy credentials
    MaxOperators,  \* maxOperatorsPerUnvetting
    NewKeys,       \* the keys operators add: [pub, valid]
    ForeignDeposits,  \* the deposits of strangers: [pub, wc, valid]
    Histories,     \* what the chain may hold when the daemon starts
    None,          \* no message
    MaxKeys,       \* bound: keys of an operator
    MaxMoves,      \* bound: steps of operators and strangers
    MaxBreaches    \* bound: deposits without a valid attestation

Keys == [pub : Pubs, valid : BOOLEAN]

ASSUME ChecksAssumption ==
    /\ ModuleOf \in [Operators -> Modules]
    /\ Modules = {ModuleSeq[i] : i \in 1..Len(ModuleSeq)}
    /\ OperatorSeq \in Seq(Operators)
    /\ Operators = {OperatorSeq[i] : i \in 1..Len(OperatorSeq)}
    /\ MaxOperators \in Nat \ {0} /\ None \notin Operators
    /\ NewKeys \subseteq Keys
    /\ \A f \in ForeignDeposits : f.pub \in Pubs /\ f.valid \in BOOLEAN
    /\ LegacyUntil \in Nat /\ MaxMoves \in Nat /\ MaxBreaches \in Nat

VARIABLES
    block,     \* number of the current block
    moved,     \* the current block is not empty
    keys,      \* keys[o]: the keys of an operator, [pub, valid], in order
    used,      \* used[o]: how many of them were deposited
    vetted,    \* vetted[o]: how many of them are vetted
    added,     \* SigningKeyAdded events; `log` tells two of one block apart
    deposits,  \* events of the deposit contract; `by` is for the properties only
    paused,    \* deposits are paused
    attested,  \* modules with an attestation the contract would accept
    unvets,    \* unvet messages the contract would accept: [module, counts]
    pausing,   \* a pause of the guardian is on its way
    moves,     \* steps of operators and strangers so far
    breaches   \* deposits without attestation so far

vars == <<block, moved, keys, used, vetted, added, deposits, paused, attested, unvets, pausing,
          moves, breaches>>

-----------------------------------------------------------------------------
(* What the guardian reads                                                  *)

\* The answer of Keys API: all keys with their operator, index and status.
KeyAt(o, i) == [op |-> o, index |-> i - 1, pub |-> keys[o][i].pub, valid |-> keys[o][i].valid,
                used |-> i <= used[o], vetted |-> i <= vetted[o]]
lidoKeys == UNION {{KeyAt(o, i) : i \in 1..Len(keys[o])} : o \in Operators}

\* Slip: funded keys are not left out.
getModuleVettedUnusedKeys_Used(m, ks) == {k \in ks : k.vetted /\ ModuleOf[k.op] = m}

getModuleVettedUnusedKeys(m, ks) ==
    {k \in ks : ~k.used /\ k.vetted /\ ModuleOf[k.op] = m}

-----------------------------------------------------------------------------
(* KeysDuplicationCheckerService                                            *)

Group(p, ks) == {k \in ks : k.pub = p}

getDuplicateKeyGroups(ks) == {p \in Pubs : Cardinality(Group(p, ks)) > 1}

OperatorsOf(ks) == {k.op : k \in ks}

findEarliestKeyWithinOperator(ks) ==
    CHOOSE k \in ks : \A x \in ks : k.index <= x.index

\* Slip: the other way round.
findEarliestEvents_Latest(events) == {e \in events : \A x \in events : e.block >= x.block}

findEarliestEvents(events) == {e \in events : \A x \in events : e.block <= x.block}

findOperatorKeys(ks, o) == {k \in ks : k.op = o}

isSameKey(k, x) == k.op = x.op /\ k.index = x.index

\* All but the lowest index of the operator that was first.
filterNonEarliestKeys(e, ks) ==
    {k \in ks : ~isSameKey(k, findEarliestKeyWithinOperator(findOperatorKeys(ks, e.op)))}

\* One earliest event names the original, if its operator still has the key;
\* of several in one block none does.
handleEventsForDuplicates(events, ks) ==
    LET earliest == findEarliestEvents(events)
    IN  IF Cardinality(earliest) # 1 THEN ks
        ELSE UNION {IF findOperatorKeys(ks, e.op) = {} THEN ks
                    ELSE filterNonEarliestKeys(e, ks) : e \in earliest}

\* The answer of SigningKeysRegistry: all events of the key up to the block.
fetchSigningKeyEvents(p) == {e \in added : e.pub = p}

getOperatorsWithoutEvents(os, events) == os \ {e.op : e \in events}

Verdict(duplicates, unresolved) == [duplicates |-> duplicates, unresolved |-> unresolved]

\* No verdict without an event of every operator.
getDuplicatesAcrossOperators(p, ks) ==
    LET events == fetchSigningKeyEvents(p)
    IN  IF getOperatorsWithoutEvents(OperatorsOf(ks), events) # {} THEN Verdict({}, ks)
        ELSE Verdict(handleEventsForDuplicates(events, ks), {})

\* Within one operator the lowest index is the original; of several operators
\* the copies that were funded are; otherwise the events decide.
processDuplicateKeyGroup(p, ks) ==
    IF Cardinality(OperatorsOf(ks)) = 1
    THEN Verdict(ks \ {findEarliestKeyWithinOperator(ks)}, {})
    ELSE IF \E k \in ks : k.used THEN Verdict({k \in ks : ~k.used}, {})
    ELSE getDuplicatesAcrossOperators(p, ks)

getDuplicatedKeys(ks) ==
    LET verdicts == {processDuplicateKeyGroup(p, Group(p, ks)) : p \in getDuplicateKeyGroups(ks)}
    IN  Verdict(UNION {v.duplicates : v \in verdicts}, UNION {v.unresolved : v \in verdicts})

-----------------------------------------------------------------------------
(* StakingModuleGuardService                                                *)

\* Slip: the deposits of other Lido modules are let through.
getFrontRunAttempts_NotCrossType(m, ours) ==
    {k \in ours : \E e \in deposits : /\ e.pub = k.pub /\ e.valid
                                      /\ e.wc \notin {WCOf[x] : x \in Modules}}

\* The vetted unused keys for which a valid deposit has other credentials than
\* the module's; front-run and cross-type keys are treated alike.
getFrontRunAttempts(m, ours) ==
    {k \in ours : \E e \in deposits : e.pub = k.pub /\ e.valid /\ e.wc # WCOf[m]}

\* The signature does not fit the key and the credentials.
getInvalidKeys(ours) == {k \in ours : ~k.valid}

\* By block, and within a block by log index.
isFirstEventEarlier(e, f) == e.block < f.block \/ (e.block = f.block /\ e.log < f.log)

\* Slip: deposits with a bad signature count.
getEarliestDeposits_Any(p) ==
    LET all == {e \in deposits : e.pub = p}
    IN  {e \in all : \A f \in all : ~isFirstEventEarlier(f, e)}

getEarliestDeposits(p) ==
    LET all == {e \in deposits : e.pub = p /\ e.valid}
    IN  {e \in all : \A f \in all : ~isFirstEventEarlier(f, e)}

\* getUsedKeyExpectedWCs: the module of a used key; the last one listed wins.
Place(o) == CHOOSE i \in 1..Len(OperatorSeq) : OperatorSeq[i] = o
ExpectedModule(copies) ==
    ModuleOf[(CHOOSE k \in copies : \A x \in copies : Place(x.op) <= Place(k.op)).op]

hasAcceptableWC(e, m) ==
    e.wc = WCOf[m] \/ (e.wc = LegacyWC[m] /\ e.block <= LegacyUntil)

\* checkHistoricalFrontRun and checkWrongWCType, which differ in whether the
\* credentials are of another Lido module and are always asked for together.
HasThreat(ks) ==
    \E p \in Pubs : LET copies == {k \in Group(p, ks) : k.used}
                    IN  /\ copies # {}
                        /\ \E e \in getEarliestDeposits(p) :
                             ~hasAcceptableWC(e, ExpectedModule(copies))

-----------------------------------------------------------------------------
(* Decisions of GuardianService and UnvettingService                        *)

\* collectStakingModuleData and checkKeys: what was found about each module.
CheckKeys(ks) ==
    LET verdict == getDuplicatedKeys(ks)
        Found(m) ==
            LET ours == getModuleVettedUnusedKeys(m, ks)
            IN  [bad |-> getInvalidKeys(ours) \cup getFrontRunAttempts(m, ours)
                         \cup getModuleVettedUnusedKeys(m, verdict.duplicates),
                 unresolved |-> getModuleVettedUnusedKeys(m, verdict.unresolved)]
    IN  [m \in Modules |-> Found(m)]

\* Slip: keys without a verdict do not matter.
ignoreDeposits_Unresolved(found, threat) == found.bad # {} \/ paused \/ threat

\* The pause of a single module is a matter of GuardianCycle.
ignoreDeposits(found, threat) ==
    found.bad # {} \/ found.unresolved # {} \/ paused \/ threat

\* Slip: only the first module is looked at.
findFirstInvalidModule_OnlyFirst(data) ==
    {ModuleSeq[i] : i \in {j \in {1} : data[ModuleSeq[j]].bad # {}}}

\* The first module with bad keys, if there is one.
findFirstInvalidModule(data) ==
    LET invalid == {i \in 1..Len(ModuleSeq) : data[ModuleSeq[i]].bad # {}}
    IN  {ModuleSeq[i] : i \in {j \in invalid : \A x \in invalid : j <= x}}

findNewVettedAmount(ks) ==
    [o \in OperatorsOf(ks) |-> findEarliestKeyWithinOperator(findOperatorKeys(ks, o)).index]

\* getFirstChunk takes the operators in the order in which the checks listed
\* their keys; here any of them may be first.
Chunks(ks) == {os \in SUBSET OperatorsOf(ks) :
                 Cardinality(os) = IF Cardinality(OperatorsOf(ks)) <= MaxOperators
                                   THEN Cardinality(OperatorsOf(ks)) ELSE MaxOperators}

\* The smallest index of each operator's bad keys is its new vetted amount.
calculateNewStakingLimit(bad) ==
    {[o \in os |-> findNewVettedAmount(bad)[o]] : os \in Chunks(bad)}

\* A transaction and a message for the other guardians; either has the effect.
processUnvetting(m, counts) == unvets' = unvets \cup {[module |-> m, counts |-> counts]}

handleUnvetting(m, bad) ==
    \E counts \in calculateNewStakingLimit(bad) : processUnvetting(m, counts)

\* handleNewBlock for the block that has just ended: a pause, or else an unvet
\* message for the first module that needs one, and attestations.
HandleNewBlock ==
    /\ ~moved
    /\ \E ks \in {lidoKeys} : \E threat \in {HasThreat(ks)}, data \in {CheckKeys(ks)} :
          \/ /\ ~paused /\ threat
             /\ pausing' = TRUE
             /\ UNCHANGED <<attested, unvets>>
          \/ /\ paused \/ ~threat
             /\ IF findFirstInvalidModule(data) = {} THEN UNCHANGED unvets
                ELSE \E m \in findFirstInvalidModule(data) : handleUnvetting(m, data[m].bad)
             /\ attested' = attested \cup {m \in Modules : ~ignoreDeposits(data[m], threat)}
             /\ UNCHANGED pausing
    /\ UNCHANGED <<block, moved, keys, used, vetted, added, deposits, paused, moves, breaches>>

-----------------------------------------------------------------------------
(* The contracts                                                            *)

\* A transaction of the current block.
InBlock  == moved' = TRUE /\ UNCHANGED block
Move     == moves < MaxMoves /\ moves' = moves + 1 /\ InBlock

\* The nonce of a module changes.
NewNonce(m) == unvets' = {u \in unvets : u.module # m}

\* addSigningKeys; the signature may be for other credentials or for none.
AddKey(o) ==
    /\ Move
    /\ Len(keys[o]) < MaxKeys
    /\ \E k \in NewKeys :
         /\ keys' = [keys EXCEPT ![o] = Append(@, k)]
         /\ added' = added \cup {[op |-> o, pub |-> k.pub, block |-> block,
                                  log |-> Cardinality(added)]}
    /\ NewNonce(ModuleOf[o]) /\ attested' = attested \ {ModuleOf[o]}
    /\ UNCHANGED <<used, vetted, deposits, paused, pausing, breaches>>

\* removeSigningKeys: the last key fills the gap, and what follows is unvetted.
RemoveKey(o) ==
    /\ Move
    /\ \E i \in used[o] + 1..Len(keys[o]) :
         /\ keys' = [keys EXCEPT ![o] = SubSeq([@ EXCEPT ![i] = keys[o][Len(keys[o])]],
                                               1, Len(keys[o]) - 1)]
         /\ vetted' = [vetted EXCEPT ![o] = IF @ < i THEN @ ELSE i - 1]
    /\ NewNonce(ModuleOf[o]) /\ attested' = attested \ {ModuleOf[o]}
    /\ UNCHANGED <<used, added, deposits, paused, pausing, breaches>>

\* The keys of an operator are vetted.
Vet(o) ==
    /\ Move
    /\ vetted[o] < Len(keys[o])
    /\ vetted' = [vetted EXCEPT ![o] = Len(keys[o])]
    /\ NewNonce(ModuleOf[o]) /\ attested' = attested \ {ModuleOf[o]}
    /\ UNCHANGED <<keys, used, added, deposits, paused, pausing, breaches>>

\* Anybody deposits for a key, which changes the deposit root.
ForeignDeposit ==
    /\ Move
    /\ \E f \in ForeignDeposits :
         deposits' = deposits \cup {[pub |-> f.pub, wc |-> f.wc, valid |-> f.valid, block |-> block,
                                     log |-> Cardinality(deposits), by |-> None]}
    /\ attested' = {}
    /\ UNCHANGED <<keys, used, vetted, added, paused, unvets, pausing, breaches>>

\* A module deposits the next keys of its operators, d[o] of operator o.
Amounts(m) == {d \in [Operators -> 0..MaxKeys] :
                 /\ \E o \in Operators : d[o] > 0
                 /\ \A o \in Operators :
                      d[o] <= IF ModuleOf[o] = m THEN vetted[o] - used[o] ELSE 0}

Fund(m) ==
    /\ ~paused
    /\ \E d \in Amounts(m) :
         /\ used' = [o \in Operators |-> used[o] + d[o]]
         /\ deposits' = deposits \cup
              UNION {{[pub |-> keys[o][i].pub, wc |-> WCOf[m], valid |-> keys[o][i].valid,
                       block |-> block, log |-> Cardinality(deposits), by |-> o] :
                         i \in used[o] + 1..used[o] + d[o]} : o \in Operators}
    /\ NewNonce(m) /\ attested' = {}
    /\ UNCHANGED <<keys, vetted, added, paused, pausing>>

\* depositBufferedEther of the DSM, with the guardian's attestation.
Deposit(m) ==
    /\ m \in attested
    /\ Fund(m) /\ InBlock
    /\ UNCHANGED <<moves, breaches>>

\* A deposit the guardian did not agree to but the others did.
Breach(m) ==
    /\ breaches < MaxBreaches /\ breaches' = breaches + 1
    /\ Fund(m) /\ Move

\* unvetSigningKeys of the DSM.
UnvetLands ==
    /\ \E u \in unvets :
         /\ vetted' = [o \in Operators |-> IF o \in DOMAIN u.counts THEN u.counts[o]
                                           ELSE vetted[o]]
         /\ NewNonce(u.module) /\ attested' = attested \ {u.module}
    /\ InBlock
    /\ UNCHANGED <<keys, used, added, deposits, paused, pausing, moves, breaches>>

\* pauseDeposits of the DSM.
PauseLands ==
    /\ pausing
    /\ pausing' = FALSE /\ paused' = TRUE
    /\ InBlock
    /\ UNCHANGED <<keys, used, vetted, added, deposits, attested, unvets, moves, breaches>>

\* The block ends.  An empty one would change nothing.
NewBlock ==
    /\ moved
    /\ moved' = FALSE /\ block' = block + 1
    /\ UNCHANGED <<keys, used, vetted, added, deposits, paused, attested, unvets, pausing,
                   moves, breaches>>

\* Lido's money for a key goes to the validator that the key's first valid
\* deposit made, and is lost if there is none or it is not Lido's.
LostAmong(all, d) ==
    \/ ~d.valid
    \/ \E e \in all : e.pub = d.pub /\ e.valid /\ isFirstEventEarlier(e, d) /\ e.wc # d.wc

\* The daemon may start at any chain on which no money was lost so far and no
\* key was funded twice: every funded key was deposited for once, with the
\* credentials its module has or had at that time.
ASSUME HistoriesAssumption ==
    \A h \in Histories :
        /\ h.keys \in [Operators -> Seq(Keys)]
        /\ h.used \in [Operators -> Nat] /\ h.vetted \in [Operators -> Nat]
        /\ \A o \in Operators : h.used[o] <= h.vetted[o] /\ h.vetted[o] <= Len(h.keys[o])
        /\ h.block \in Nat /\ h.moves \in 0..MaxMoves
        /\ \A e \in h.added : e.op \in Operators /\ e.block \in 0..h.block
        /\ IsFiniteSet(h.deposits)
        /\ \A d \in h.deposits :
              /\ d.block \in 0..h.block /\ d.log \in 0..Cardinality(h.deposits) - 1
              /\ d.valid \in BOOLEAN
              /\ d.by # None => ~LostAmong(h.deposits, d)
              /\ \A e \in h.deposits : e.log = d.log => e.wc = d.wc
        /\ \A o \in Operators : \A i \in 1..h.used[o] :
              /\ \E d \in h.deposits :
                    /\ d.pub = h.keys[o][i].pub /\ d.by = o
                    /\ hasAcceptableWC(d, ModuleOf[o])
              /\ \A q \in Operators : \A j \in 1..h.used[q] :
                    h.keys[q][j].pub = h.keys[o][i].pub => q = o /\ j = i

Init ==
    /\ \E h \in Histories : /\ keys = h.keys /\ used = h.used /\ vetted = h.vetted
                            /\ added = h.added /\ deposits = h.deposits /\ block = h.block
                            /\ moves = h.moves
    /\ moved = FALSE /\ paused = FALSE
    /\ attested = {} /\ unvets = {} /\ pausing = FALSE
    /\ breaches = 0

Next ==
    \/ HandleNewBlock \/ NewBlock \/ UnvetLands \/ PauseLands \/ ForeignDeposit
    \/ \E o \in Operators : AddKey(o) \/ RemoveKey(o) \/ Vet(o)
    \/ \E m \in Modules : Deposit(m) \/ Breach(m)

Spec == Init /\ [][Next]_vars

\* Blocks end, the guardian looks at one sooner or later, and its transactions
\* are included.
Fairness ==
    WF_vars(NewBlock) /\ WF_vars(HandleNewBlock) /\ WF_vars(UnvetLands) /\ WF_vars(PauseLands)

FairSpec == Spec /\ Fairness

-----------------------------------------------------------------------------
(* Properties                                                               *)

\* Every variable keeps its type, and no unvetting goes below the keys that
\* were already funded.
TypeOK ==
    /\ keys \in [Operators -> Seq(Keys)]
    /\ used \in [Operators -> Nat] /\ vetted \in [Operators -> Nat]
    /\ \A o \in Operators : used[o] <= vetted[o] /\ vetted[o] <= Len(keys[o])
    /\ block \in Nat /\ moved \in BOOLEAN /\ paused \in BOOLEAN /\ pausing \in BOOLEAN
    /\ \A e \in added : e.op \in Operators /\ e.block \in Nat
    /\ attested \in SUBSET Modules /\ \A u \in unvets : u.module \in Modules
    /\ moves \in 0..MaxMoves /\ breaches \in 0..MaxBreaches

Lost(d) == LostAmong(deposits, d)

\* A deposit with the guardian's attestation never loses its money, whatever
\* operators and strangers did between the reading and the deposit.
MoneyIsSafe ==
    breaches = 0 => \A d \in deposits : d.by # None => ~Lost(d)

\* No key is funded twice, in one transaction, by two operators or by two
\* modules.
FundedOnce ==
    breaches = 0 => \A k, x \in lidoKeys : (k.used /\ x.used /\ k.pub = x.pub) => k = x

\* An operator without reproach: its vetted keys have good signatures, nobody
\* deposited for them with other credentials, no other copy is its own or was
\* funded, and it was the first to add them.
Spotless(o) ==
    \A i \in used[o] + 1..vetted[o] :
        LET k == KeyAt(o, i)
        IN  /\ k.valid
            /\ \A e \in deposits : e.pub = k.pub => ~(e.valid /\ e.wc # WCOf[ModuleOf[o]])
            /\ \A x \in lidoKeys : (x.pub = k.pub /\ x # k) => (x.op # o /\ ~x.used)
            /\ \E e \in added : /\ e.op = o /\ e.pub = k.pub
                                /\ \A f \in added : (f.pub = k.pub /\ f # e) => e.block < f.block

\* The guardian's transactions take nothing from an operator without reproach,
\* even if others add copies of its keys.
SpotlessKeptVetted ==
    [][keys' = keys => \A o \in Operators : Spotless(o) => vetted'[o] >= vetted[o]]_vars

\* Deposits are paused only if a key that Lido funded belongs to somebody else.
PausedForCause == paused => \E d \in deposits : d.by # None /\ Lost(d)

\* Once operators and strangers are done, every module that may be funded is
\* attested, so nothing that must not be funded is vetted any more; only a
\* pause, and keys that nobody can decide about, stay in the way.
SettlesDown ==
    <>[](\/ paused
         \/ \A m \in Modules : m \in attested \/ CheckKeys(lidoKeys)[m].unresolved # {})

=============================================================================
