---------------------------- MODULE GuardianCycle ----------------------------
(***************************************************************************)
(* The guardian's work on one block after another: the polling cycle       *)
(* GuardianService.handleNewBlock, the key task GuardianService.handleKeys *)
(* that a cycle starts and does not wait for, and the shared mutable state *)
(* the two race on: the wallet WalletService has selected, the DSM         *)
(* contract RepositoryService has cached, lastProcessedStateMeta and       *)
(* lastContractsStateByModuleId.                                           *)
(*                                                                         *)
(* An action is the code that runs between two awaits of one task.  A      *)
(* snapshot is what Keys API answers for one block hash; everything read   *)
(* "at a block hash" is a function of the snapshot.  A job is one signed   *)
(* message on its way: a pause (of a cycle), an unvet or a deposit         *)
(* attestation (of a key task), each of them signed, published and         *)
(* transmitted in three separate awaits.                                   *)
(***************************************************************************)
EXTENDS Integers, Sequences, FiniteSets

CONSTANTS
    Modules,      \* ids of the staking modules, positive integers
    Wallets,      \* the wallet pool built from the configured private keys
    Legacy,       \* wallets[0]
    Dsms,         \* the deposit security modules, by their addresses
    V5Dsms,       \* those of version 5; the others have version 4
    None,         \* no wallet, no contract
    Cycles,       \* slots for executions of handleNewBlock
    KeyTasks,     \* slots for executions of handleKeys
    MaxSnap,      \* bound: number of snapshots
    Chains,       \* the chains considered: functions from snapshots to block data
    MaxLag,       \* bound: how far behind its newest snapshot Keys API may answer
    ResignBlocks, \* GUARDIAN_DEPOSIT_RESIGNING_BLOCKS
    PingBlocks,   \* GUARDIAN_PING_BLOCKS_PERIOD
    MaxFailures,  \* bound: number of rejected awaits and timeouts
    Timeouts      \* bound: the OneAtTime methods that may time out, per chain

Snaps == 1..MaxSnap
Tasks == Cycles \cup KeyTasks
IsV5(dsm) == dsm \in V5Dsms

\* A pause job of a cycle, the unvet job and the deposit jobs of a key task.
Jobs  == (Tasks \X {0}) \cup (KeyTasks \X Modules)

BlockData ==
    [ number   : Nat,                    \* blockNumber; the snapshot is the hash
      dsm      : Dsms,                   \* the DSM the locator points to
      delegate : Wallets \cup {None},    \* effective delegate with a known key
      guardian : BOOLEAN,                \* findGuardianIndex # -1
      threat   : BOOLEAN,                \* hasFrontRunning \/ hasWrongWCType
      paused   : BOOLEAN,                \* isDepositsPaused
      root     : Nat,                    \* deposit root
      changed  : [Modules -> Nat],       \* lastChangedBlockHash of each module
      bad      : SUBSET Modules,         \* modules with keys to unvet
      blocked  : SUBSET Modules,         \* unresolved duplicates or paused module
      poor     : SUBSET Wallets ]        \* wallets at or below the critical balance

ASSUME ConstantsAssumption ==
    /\ Modules \subseteq Nat \ {0}
    /\ Legacy \in Wallets /\ V5Dsms \subseteq Dsms
    /\ None \notin Wallets /\ None \notin Dsms
    /\ Cycles \cap KeyTasks = {}
    /\ MaxSnap \in Nat \ {0} /\ MaxLag \in Nat /\ MaxFailures \in Nat
    /\ ResignBlocks \in Nat \ {0} /\ PingBlocks \in Nat \ {0}
    /\ Chains \subseteq [Snaps -> BlockData]
    /\ Timeouts \subseteq Chains \X {"handleNewBlock", "handleKeys", "transactions"}

VARIABLES
    chain,       \* what the execution layer says at each snapshot
    head,        \* newest snapshot Keys API serves
    pausedFrom,  \* first snapshot at which this guardian's own pause is visible
    active,      \* WalletService.activeWallet
    cachedDsm,   \* the DSM contract in RepositoryService.tempContractsCache
    lastMeta,    \* lastProcessedStateMeta, 0 when unset
    lastPing,    \* lastPingBlock, 0 when unset
    lastStates,  \* lastContractsStateByModuleId
    task,        \* executions of handleNewBlock and handleKeys
    job,         \* messages being signed and sent
    pings,       \* ping messages sent without waiting
    txs,         \* pause and unvet transactions sent without waiting
    bus,         \* every message delivered to the broker
    failures     \* rejected awaits and timeouts so far

world   == <<chain, head, pausedFrom>>
memory  == <<lastMeta, lastPing, lastStates>>
outside == <<pings, txs, bus>>
vars == <<world, active, cachedDsm, memory, task, job, outside, failures>>

-----------------------------------------------------------------------------
(* Reading a snapshot                                                       *)

IsPaused(s) == chain[s].paused \/ s >= pausedFrom

\* The wallet an execution context names: DSM v4 signs with the legacy wallet,
\* DSM v5 with the effective delegate of the delegation contract.
ContextWallet(dsm, s) == IF IsV5(dsm) THEN chain[s].delegate ELSE Legacy

\* The contracts state a deposit attestation is about.
ContractsState(s, m) ==
    [root |-> chain[s].root, changed |-> chain[s].changed[m],
     number |-> chain[s].number]

NoState == [root |-> 0, changed |-> 0, number |-> -1]

IsSameContractsStates(x, y) ==
    /\ x # NoState /\ y # NoState
    /\ x.root = y.root
    /\ x.changed = y.changed
    /\ x.number \div ResignBlocks = y.number \div ResignBlocks

IsNeedToProcessNewState(s) ==
    \/ lastMeta = 0
    \/ /\ chain[lastMeta].number <= chain[s].number
       /\ lastMeta # s

\* Slips: the module's own keys, or everything about the block, is forgotten.
IgnoreDeposits_NoKeys(s, m) ==
    m \in chain[s].blocked \/ IsPaused(s) \/ chain[s].threat
IgnoreDeposits_NoBlock(s, m) ==
    m \in chain[s].bad \/ m \in chain[s].blocked

IgnoreDeposits(s, m) ==
    \/ m \in chain[s].bad
    \/ m \in chain[s].blocked
    \/ IsPaused(s)
    \/ chain[s].threat

-----------------------------------------------------------------------------
(* Tasks and jobs                                                           *)

IdleTask == [pc |-> "idle", live |-> FALSE, snap |-> 0, dsm |-> None,
             balanceOf |-> None]
IdleJob  == [pc |-> "idle", prefix |-> None, signer |-> None, sender |-> None]
DoneJob  == [IdleJob EXCEPT !.pc = "done"]
\* A job whose message prefix has been requested from the cached DSM.
NewJob   == [IdleJob EXCEPT !.pc = "prefix", !.prefix = cachedDsm]

InFlight(j) == job[j].pc \in {"prefix", "publish", "transmit"}
JobsOf(t)   == {j \in Jobs : j[1] = t}
KindOf(j)   == IF j[1] \in Cycles THEN "pause"
               ELSE IF j[2] = 0 THEN "unvet" ELSE "deposit"

\* Slip: the OneAtTime decorator is missing.
Busy_Never(slots) == FALSE

\* OneAtTime: the flag of a method is set while an execution of it that has
\* not timed out is under way.
Busy(slots) == \E t \in slots : task[t].live

\* A slot of the model is free when nothing of its last execution is running.
Free(t) == task[t].pc = "idle" /\ \A j \in JobsOf(t) : ~InFlight(j)

FirstInvalidModule(s) ==
    CHOOSE m \in chain[s].bad : \A n \in chain[s].bad : m <= n

\* What a signature of DSM v4 is about.  Nonce, keys and operators of a module
\* are those of the block hash s.
v4Digest(kind, prefix, s, m) ==
    CASE kind = "deposit" -> <<prefix, chain[s].number, s, chain[s].root, m>>
      [] kind = "pause"   -> <<prefix, chain[s].number>>
      [] kind = "unvet"   -> <<prefix, chain[s].number, s, m>>

\* DSM v5 has the guardian's address after the prefix.
v5Digest(kind, prefix, s, m) ==
    <<prefix, "guardian">> \o Tail(v4Digest(kind, prefix, s, m))

\* signDepositData, signPauseData and signUnvetData of WalletService.
Digest(kind, dsm, prefix, s, m) ==
    IF IsV5(dsm) THEN v5Digest(kind, prefix, s, m) ELSE v4Digest(kind, prefix, s, m)

\* signDepositData, signPauseData and signUnvetData of SecurityService: the
\* prefix is the one that was asked for, all else the context's and the block's.
signData(j, m) == Digest(KindOf(j), task[j[1]].dsm, job[j].prefix, task[j[1]].snap, m)

\* A message on its way to the broker.  Its signature was made when the prefix
\* arrived; block and context of the task have not changed since.
Message(j) ==
    LET t == task[j[1]]
        m == IF KindOf(j) = "unvet" THEN FirstInvalidModule(t.snap) ELSE j[2]
    IN  [kind |-> KindOf(j), module |-> m, snap |-> t.snap, dsm |-> t.dsm,
         digest |-> signData(j, m),
         signer |-> job[j].signer, sender |-> job[j].sender]

\* The contract at dsm takes a message about block s: it puts the digest
\* together from its own prefix, in the layout of its version, and recovers the
\* guardian's signer from it.
Accepts(dsm, s, b) ==
    /\ b.digest = Digest(b.kind, dsm, dsm, s, b.module)
    /\ b.signer = ContextWallet(dsm, s)

\* The OneAtTime flags of pauseDeposits and, per module, of unvetSigningKeys.
TxBusy(kind, m) == \E x \in txs : x.kind = kind /\ x.module = m /\ x.live

\* onModuleInit has succeeded at the first snapshot: the contracts are cached
\* and securityService.initialize has built a context and selected its wallet.
Init ==
    /\ chain \in Chains
    /\ IsV5(chain[1].dsm) => chain[1].delegate # None /\ chain[1].guardian
    /\ head = 1 /\ pausedFrom = MaxSnap + 1
    /\ cachedDsm = chain[1].dsm
    /\ active = ContextWallet(chain[1].dsm, 1)
    /\ lastMeta = 0 /\ lastPing = 0
    /\ lastStates = [m \in Modules |-> NoState]
    /\ task = [t \in Tasks |-> IdleTask]
    /\ job = [j \in Jobs |-> IdleJob]
    /\ pings = {} /\ txs = {} /\ bus = {}
    /\ failures = 0

-----------------------------------------------------------------------------
(* handleNewBlock                                                           *)

\* The interval fires and no execution holds the OneAtTime flag.
StartCycle(c) ==
    /\ ~Busy(Cycles) /\ Free(c)
    /\ task' = [task EXCEPT ![c] = [IdleTask EXCEPT !.pc = "modules", !.live = TRUE]]
    /\ UNCHANGED <<world, active, cachedDsm, memory, job, outside, failures>>

\* getModules answers; the early exit compares with lastProcessedStateMeta.
ReadModules(c) ==
    /\ task[c].pc = "modules"
    /\ \E s \in Snaps :
         /\ s <= head /\ s + MaxLag >= head
         /\ task' = [task EXCEPT ![c] =
                IF IsNeedToProcessNewState(s)
                THEN [@ EXCEPT !.pc = "contracts", !.snap = s]
                ELSE IdleTask]
    /\ UNCHANGED <<world, active, cachedDsm, memory, job, outside, failures>>

\* Slip: a contract that is cached is cached for good.
CacheContracts_Permanent(c) ==
    /\ task[c].pc = "contracts"
    /\ task' = [task EXCEPT ![c].pc = "deposits"]
    /\ UNCHANGED <<world, active, cachedDsm, memory, job, outside, failures>>

\* getKeys has answered and initCachedContracts overwrites the cached DSM.
CacheContracts(c) ==
    /\ task[c].pc = "contracts"
    /\ cachedDsm' = chain[task[c].snap].dsm
    /\ task' = [task EXCEPT ![c].pc = "deposits"]
    /\ UNCHANGED <<world, active, memory, job, outside, failures>>

\* The deposit events cache is up to date; getGuardianExecutionContext takes
\* the cached DSM and asks it for its version.
CollectData(c) ==
    /\ task[c].pc = "deposits"
    /\ task' = [task EXCEPT ![c].pc = "version", ![c].dsm = cachedDsm]
    /\ UNCHANGED <<world, active, cachedDsm, memory, job, outside, failures>>

\* The version is known; a v4 context selects the legacy wallet before it
\* awaits the guardian list.
ReadVersion(c) ==
    /\ task[c].pc = "version"
    /\ task' = [task EXCEPT ![c].pc = "guardians"]
    /\ active' = IF IsV5(task[c].dsm) THEN active ELSE Legacy
    /\ UNCHANGED <<world, cachedDsm, memory, job, outside, failures>>

\* A v5 context selects the delegate's wallet only after every check passed,
\* and throws when the delegate has no key or the guardian is not listed.
ReadGuardians(c) ==
    /\ task[c].pc = "guardians"
    /\ LET s == task[c].snap
           v5 == IsV5(task[c].dsm)
           refused == v5 /\ (chain[s].delegate = None \/ ~chain[s].guardian)
       IN  /\ task' = [task EXCEPT ![c] =
                          IF refused THEN IdleTask ELSE [@ EXCEPT !.pc = "balance"]]
           /\ active' = IF v5 /\ ~refused THEN chain[s].delegate ELSE active
    /\ UNCHANGED <<world, cachedDsm, memory, job, outside, failures>>

\* The deposit root and events have arrived; isBalanceCritical asks for the
\* balance of the wallet that is active at this moment.
ReadBalance(c) ==
    /\ task[c].pc = "balance"
    /\ task' = [task EXCEPT ![c].pc = "decide", ![c].balanceOf = active]
    /\ UNCHANGED <<world, active, cachedDsm, memory, job, outside, failures>>

MustPause(s) == ~IsPaused(s) /\ chain[s].threat

\* Slip: the cycle waits for the running key task before it pauses.
DecidePause_AfterKeys(c) ==
    /\ ~Busy(KeyTasks)
    /\ task[c].pc = "decide" /\ MustPause(task[c].snap)
    /\ task' = [task EXCEPT ![c].pc = "pausing"]
    /\ job' = [job EXCEPT ![<<c, 0>>] = NewJob]
    /\ UNCHANGED <<world, active, cachedDsm, memory, outside, failures>>

\* All the data is collected and there is something to pause: handlePause.
DecidePause(c) ==
    /\ task[c].pc = "decide" /\ MustPause(task[c].snap)
    /\ task' = [task EXCEPT ![c].pc = "pausing"]
    /\ job' = [job EXCEPT ![<<c, 0>>] = NewJob]
    /\ UNCHANGED <<world, active, cachedDsm, memory, outside, failures>>

\* Otherwise handleKeys is called and not awaited: it starts when its OneAtTime
\* flag is clear, and the call is dropped when the flag is set.
DecideKeys(c) ==
    /\ task[c].pc = "decide" /\ ~MustPause(task[c].snap)
    /\ \/ /\ ~Busy(KeyTasks)
          /\ \E k \in KeyTasks :
               /\ Free(k)
               /\ task' = [task EXCEPT ![c] = IdleTask,
                                       ![k] = [task[c] EXCEPT !.pc = "checking",
                                                              !.live = TRUE]]
               /\ job' = [j \in Jobs |-> IF j[1] = k THEN IdleJob ELSE job[j]]
       \/ /\ Busy(KeyTasks)
          /\ task' = [task EXCEPT ![c] = IdleTask]
          /\ UNCHANGED job
    /\ UNCHANGED <<world, active, cachedDsm, memory, outside, failures>>

\* The pause message is sent (or was not to be sent): the cycle returns and,
\* unlike handleKeys, leaves lastProcessedStateMeta alone.
FinishPause(c) ==
    /\ task[c].pc = "pausing" /\ job[<<c, 0>>].pc = "done"
    /\ task' = [task EXCEPT ![c] = IdleTask]
    /\ job' = [job EXCEPT ![<<c, 0>>] = IdleJob]
    /\ UNCHANGED <<world, active, cachedDsm, memory, outside, failures>>

-----------------------------------------------------------------------------
(* handleKeys                                                               *)

\* The keys are checked; the first module with keys to unvet, if any, is
\* handled before deposits, after maxOperatorsPerUnvetting was read.
CheckKeys(k) ==
    /\ task[k].pc = "checking"
    /\ task' = [task EXCEPT ![k].pc = "unvetting"]
    /\ job' = [job EXCEPT ![<<k, 0>>] =
                  IF chain[task[k].snap].bad = {} THEN DoneJob ELSE NewJob]
    /\ UNCHANGED <<world, active, cachedDsm, memory, outside, failures>>

\* handleDeposit runs every module up to its first await.
HandleDeposit(k) ==
    /\ task[k].pc = "unvetting" /\ job[<<k, 0>>].pc = "done"
    /\ LET s == task[k].snap
           skip(m) == \/ IgnoreDeposits(s, m)
                      \/ IsSameContractsStates(ContractsState(s, m), lastStates[m])
       IN  job' = [j \in Jobs |->
                     IF j[1] # k \/ j[2] = 0 THEN job[j]
                     ELSE IF skip(j[2]) THEN DoneJob ELSE NewJob]
    /\ task' = [task EXCEPT ![k].pc = "depositing"]
    /\ UNCHANGED <<world, active, cachedDsm, memory, outside, failures>>

\* Promise.all over the modules has resolved.
AllDone(k) == \A j \in JobsOf(k) : job[j].pc = "done"

\* Every module is done: ping at most once per period, then remember the block.
FinishKeys(k) ==
    /\ task[k].pc = "depositing"
    /\ AllDone(k)
    /\ LET s == task[k].snap
           number == chain[s].number
       IN  /\ IF lastPing = 0 \/ lastPing + PingBlocks <= number
              THEN /\ lastPing' = number
                   /\ pings' = pings \cup {[snap |-> s, dsm |-> task[k].dsm]}
              ELSE UNCHANGED <<lastPing, pings>>
           /\ lastMeta' = s
    /\ task' = [task EXCEPT ![k] = IdleTask]
    /\ job' = [j \in Jobs |-> IF j[1] = k THEN IdleJob ELSE job[j]]
    /\ UNCHANGED <<world, active, cachedDsm, lastStates, txs, bus, failures>>

-----------------------------------------------------------------------------
(* Signing and sending: SecurityService, WalletService, MessagesService     *)

\* Slip: signing relies on the wallet the cycle selected earlier.
SelectWallet_Earlier(t) == active

SelectWallet(t) == ContextWallet(task[t].dsm, task[t].snap)

\* A v4 transaction goes to the DSM that is cached now, a v5 one to the DSM of
\* the context through the delegation contract.
TxTarget(t) == IF IsV5(task[t].dsm) THEN task[t].dsm ELSE cachedDsm

BalanceCritical(t) == task[t].balanceOf \in chain[task[t].snap].poor

SendTx(j) ==
    LET t == j[1]
        m == IF KindOf(j) = "unvet" THEN FirstInvalidModule(task[t].snap) ELSE 0
        wanted == KindOf(j) = "pause" \/ (KindOf(j) = "unvet" /\ ~BalanceCritical(t))
    IN  IF wanted /\ ~TxBusy(KindOf(j), m)
        THEN txs' = txs \cup {[kind |-> KindOf(j), module |-> m, snap |-> task[t].snap,
                               dsm |-> task[t].dsm, target |-> TxTarget(t),
                               from |-> active', live |-> TRUE]}
        ELSE UNCHANGED txs

\* Slip: the attested state is not remembered.
Remember_Nothing(j) == UNCHANGED lastStates

Remember(j) ==
    lastStates' = IF KindOf(j) = "deposit"
                  THEN [lastStates EXCEPT ![j[2]] =
                           ContractsState(task[j[1]].snap, j[2])]
                  ELSE lastStates

\* The prefix has arrived: select the context's wallet and sign with whatever
\* wallet is selected, with no await in between; a pause and an unvet then
\* send their transaction without waiting.  A guardian missing from the list
\* sends no message, and a deposit counts as done all the same.
Sign(j) ==
    /\ job[j].pc = "prefix"
    /\ active' = SelectWallet(j[1])
    /\ SendTx(j)
    /\ IF chain[task[j[1]].snap].guardian
       THEN /\ job' = [job EXCEPT ![j].pc = "publish", ![j].signer = active']
            /\ UNCHANGED lastStates
       ELSE /\ job' = [job EXCEPT ![j] = DoneJob]
            /\ Remember(j)
    /\ UNCHANGED <<world, cachedDsm, lastMeta, lastPing, task, pings, bus, failures>>

\* The network id and the connection were awaited; the Data Bus transport now
\* takes the wallet that is active at this moment.
Publish(j) ==
    /\ job[j].pc = "publish"
    /\ job' = [job EXCEPT ![j].pc = "transmit", ![j].sender = active]
    /\ UNCHANGED <<world, active, cachedDsm, memory, task, outside, failures>>

\* The broker has the message; a deposit remembers what it attested.
Transmit(j) ==
    /\ job[j].pc = "transmit"
    /\ bus' = bus \cup {Message(j)}
    /\ job' = [job EXCEPT ![j] = DoneJob]
    /\ Remember(j)
    /\ UNCHANGED <<world, active, cachedDsm, lastMeta, lastPing, task, pings, txs,
                   failures>>

\* A ping takes the same road with nobody waiting for it.
PublishPing(p) ==
    /\ pings' = pings \ {p}
    /\ bus' = IF chain[p.snap].guardian
              THEN bus \cup {[kind |-> "ping", module |-> 0, snap |-> p.snap,
                              dsm |-> p.dsm, digest |-> <<>>, signer |-> None,
                              sender |-> active]}
              ELSE bus
    /\ UNCHANGED <<world, active, cachedDsm, memory, task, job, txs, failures>>

-----------------------------------------------------------------------------
(* Failures and timeouts                                                    *)

Fail == failures < MaxFailures /\ failures' = failures + 1

\* Slip: a rejection leaves the OneAtTime flag set.
TaskFails_FlagStays(t) ==
    /\ Fail
    /\ task[t].pc \notin {"idle", "pausing", "unvetting", "depositing"}
    /\ task' = [task EXCEPT ![t] = [IdleTask EXCEPT !.live = TRUE]]
    /\ UNCHANGED <<world, active, cachedDsm, memory, job, outside>>

\* An await of a cycle or of the sequential part of handleKeys rejects.
TaskFails(t) ==
    /\ Fail
    /\ task[t].pc \notin {"idle", "pausing", "unvetting", "depositing"}
    /\ task' = [task EXCEPT ![t] = IdleTask]
    /\ UNCHANGED <<world, active, cachedDsm, memory, job, outside>>

\* Slip: the error of a send is swallowed.
JobFails_Swallowed(j) ==
    /\ Fail
    /\ InFlight(j)
    /\ job' = [job EXCEPT ![j] = DoneJob]
    /\ UNCHANGED <<world, active, cachedDsm, memory, task, outside>>

\* Signing or sending rejects.  The task that awaits the job rejects with it,
\* and the deposit jobs of the other modules keep running.
JobFails(j) ==
    /\ Fail
    /\ InFlight(j)
    /\ job' = [job EXCEPT ![j] = IdleJob]
    /\ task' = [task EXCEPT ![j[1]].pc = "idle", ![j[1]].live = FALSE]
    /\ UNCHANGED <<world, active, cachedDsm, memory, outside>>

PingFails(p) ==
    /\ Fail
    /\ pings' = pings \ {p}
    /\ UNCHANGED <<world, active, cachedDsm, memory, task, job, txs, bus>>

\* OneAtTime gives up waiting and clears its flag; the method runs on.
TimesOut(t) ==
    /\ <<chain, IF t \in Cycles THEN "handleNewBlock" ELSE "handleKeys">> \in Timeouts
    /\ task[t].live
    /\ Fail
    /\ task' = [task EXCEPT ![t].live = FALSE]
    /\ UNCHANGED <<world, active, cachedDsm, memory, job, outside>>

TxTimesOut(x) ==
    /\ <<chain, "transactions">> \in Timeouts /\ x.live
    /\ Fail
    /\ txs' = (txs \ {x}) \cup {[x EXCEPT !.live = FALSE]}
    /\ UNCHANGED <<world, active, cachedDsm, memory, task, job, pings, bus>>

-----------------------------------------------------------------------------
(* The execution layer and Keys API                                         *)

NewSnapshot ==
    /\ head < MaxSnap
    /\ head' = head + 1
    /\ UNCHANGED <<chain, pausedFrom, active, cachedDsm, memory, task, job, outside,
                   failures>>

\* A transaction is mined; a pause of the current DSM shows from the next
\* snapshot on.
TxMined(x) ==
    /\ txs' = txs \ {x}
    /\ pausedFrom' = IF x.kind = "pause" /\ x.target = chain[head].dsm /\ head < pausedFrom
                     THEN head + 1 ELSE pausedFrom
    /\ UNCHANGED <<chain, head, active, cachedDsm, memory, task, job, pings, bus,
                   failures>>

\* A transaction reverts or cannot be sent.
TxFails(x) ==
    /\ Fail
    /\ txs' = txs \ {x}
    /\ UNCHANGED <<world, active, cachedDsm, memory, task, job, pings, bus>>

-----------------------------------------------------------------------------

CycleStep(c) ==
    \/ StartCycle(c) \/ ReadModules(c) \/ CacheContracts(c) \/ CollectData(c)
    \/ ReadVersion(c) \/ ReadGuardians(c) \/ ReadBalance(c)
    \/ DecidePause(c) \/ DecideKeys(c) \/ FinishPause(c)

KeysStep(k) == CheckKeys(k) \/ HandleDeposit(k) \/ FinishKeys(k)

JobStep(j) == Sign(j) \/ Publish(j) \/ Transmit(j)

Next ==
    \/ \E c \in Cycles : CycleStep(c)
    \/ \E k \in KeyTasks : KeysStep(k)
    \/ \E j \in Jobs : JobStep(j) \/ JobFails(j)
    \/ \E t \in Tasks : TaskFails(t) \/ TimesOut(t)
    \/ \E p \in pings : PublishPing(p) \/ PingFails(p)
    \/ \E x \in txs : TxMined(x) \/ TxFails(x) \/ TxTimesOut(x)
    \/ NewSnapshot

Spec == Init /\ [][Next]_vars

\* The interval keeps firing, and each await of a cycle and of its pause job
\* settles up to the publication: JSON-RPC and HTTP requests carry their own
\* timeouts.  Nothing is assumed of the key tasks, which may hang for as long as
\* they like.
PauseFairness ==
    /\ WF_vars(NewSnapshot)
    /\ \A c \in Cycles : WF_vars(CycleStep(c)) /\ WF_vars(Sign(<<c, 0>>) \/ Publish(<<c, 0>>))

PauseSpec == Spec /\ PauseFairness

\* On the Data Bus the messages of a wallet go one at a time, and wait for each
\* other without a timeout (DSMMessageSender's mutex).  Here the one whose turn
\* it is gets through, be it the pause, a key task's or a ping; the code does not
\* promise that of a transaction that vanishes (Mute in DataBus).
PublicationsSettle ==
    \A w \in Wallets :
        WF_vars(\/ \E j \in Jobs : job[j].sender = w /\ Transmit(j)
                \/ \E p \in pings : active = w /\ PublishPing(p))

\* The awaits of the key tasks settle as well.
KeysFairness ==
    /\ \A k \in KeyTasks : WF_vars(KeysStep(k))
    /\ \A j \in Jobs : WF_vars(JobStep(j))


-----------------------------------------------------------------------------
(* Properties                                                               *)

TaskPcs == {"idle", "modules", "contracts", "deposits", "version", "guardians",
            "balance", "decide", "pausing", "checking", "unvetting", "depositing"}
JobPcs  == {"idle", "prefix", "publish", "transmit", "done"}

TaskType == [pc : TaskPcs, live : BOOLEAN, snap : Snaps \cup {0},
             dsm : Dsms \cup {None}, balanceOf : Wallets \cup {None}]
JobType  == [pc : JobPcs, prefix : Dsms \cup {None}, signer : Wallets \cup {None},
             sender : Wallets \cup {None}]
StateType == [root : Nat, changed : Nat, number : Int]

\* Every variable keeps its type.
TypeOK ==
    /\ chain \in Chains /\ head \in Snaps /\ pausedFrom \in Snaps \cup {MaxSnap + 1}
    /\ active \in Wallets /\ cachedDsm \in Dsms
    /\ lastMeta \in Snaps \cup {0} /\ lastPing \in Nat
    /\ lastStates \in [Modules -> StateType]
    /\ task \in [Tasks -> TaskType]
    /\ job \in [Jobs -> JobType]
    /\ failures \in 0..MaxFailures

\* Whatever wallet another task selects in between, a pause, unvet or deposit
\* is signed, and its transaction sent, by the wallet of its own context.
SignedByContextWallet ==
    /\ \A j \in Jobs : job[j].pc \in {"publish", "transmit"} =>
                         job[j].signer = SelectWallet(j[1])
    /\ \A x \in txs : x.from = ContextWallet(x.dsm, x.snap)
    /\ \A b \in bus : b.kind # "ping" => b.signer = ContextWallet(b.dsm, b.snap)

\* No attestation leaves for a block whose deposits are paused or threatened,
\* nor for a module with keys to unvet, unresolved duplicates or a pause of its
\* own, and none from an unlisted guardian, whatever the interleaving.
OnlySafeAttested ==
    \A b \in bus : b.kind = "deposit" =>
        /\ b.module \notin chain[b.snap].bad \cup chain[b.snap].blocked
        /\ ~chain[b.snap].paused /\ ~chain[b.snap].threat
        /\ chain[b.snap].guardian

Attested(s, m) ==
    \E b \in bus : /\ b.kind = "deposit" /\ b.module = m
                   /\ IsSameContractsStates(ContractsState(b.snap, m), ContractsState(s, m))

\* A guardian that was not listed sends nothing and yet remembers the state.
RememberedUnlisted(s, m) ==
    \E z \in Snaps : /\ ~chain[z].guardian
                     /\ IsSameContractsStates(ContractsState(z, m), ContractsState(s, m))

\* A block counts as processed only when every module open for deposits has
\* been attested in its current contracts state, however the sends of its
\* modules failed and were retried (handleKeys, lines 320-344).
ProcessedMeansAttested ==
    lastMeta # 0 => \A m \in Modules :
        \/ IgnoreDeposits(lastMeta, m)
        \/ Attested(lastMeta, m)
        \/ RememberedUnlisted(lastMeta, m)

\* The Data Bus transaction of a message comes from the wallet of the message's
\* own context: the legacy wallet with DSM v4, the active delegate's with v5.
\* README.md:52-53 says so; Publish reads the wallet after two more awaits.
BusSenderIsContextWallet ==
    \A b \in bus : b.sender = ContextWallet(b.dsm, b.snap)

\* The pause of a block reaches the DSM of that block and no other: its message
\* is accepted there and its transaction goes there, even when key tasks of
\* other blocks are running while the DSM is replaced.  An unvet or attestation
\* that lived through that has the prefix of the new DSM (getAttestMessagePrefix
\* asks the cached one) in the layout of the old: the new one accepts it if it
\* is of the same version, and no DSM does if it is not.
PauseAddressesOwnDsm ==
    /\ \A x \in txs : x.kind = "pause" => x.target = chain[x.snap].dsm
    /\ \A b \in {d \in bus : d.kind # "ping"}, dsm \in Dsms :
          LET own == chain[b.snap].dsm IN
          /\ b.kind = "pause" => (Accepts(dsm, b.snap, b) <=> dsm = own)
          /\ Accepts(dsm, b.snap, b) => (IsV5(dsm) <=> IsV5(own))

\* Only a key task that OneAtTime has given up moves the last processed block
\* back; otherwise isNeedToProcessNewState really refuses old blocks, although
\* it compares them when a cycle starts and its key task records them much later.
MetaNeverGoesBack ==
    [][\/ lastMeta = 0 \/ lastMeta' >= lastMeta
       \/ \E k \in KeyTasks : task[k].pc = "depositing" /\ ~task[k].live]_lastMeta

\* Once a pause has been announced for a block, an attestation delivered later
\* (by a key task that was already running) is for an older block.
NoAttestationBehindPause ==
    [][\A d \in bus' \ bus : d.kind = "deposit" =>
          \A p \in bus : p.kind = "pause" => d.snap < p.snap]_bus

\* As long as nothing failed, a module's contracts state is attested once:
\* blocks of one signing window that changed nothing for it are not re-signed.
AttestedOnce ==
    [][\A j \in Jobs :
          ( /\ failures = 0 /\ KindOf(j) = "deposit"
            /\ job[j].pc = "transmit" /\ job'[j].pc = "done" )
          => ~Attested(task[j[1]].snap, j[2])]_job

\* A threat in the newest block leads to a pause message for it, even while a
\* key task of an earlier block hangs (guardian.service.ts:215-217) -- unless it
\* hangs in the publication of a message, which keeps the wallet from the pause
\* (dsm-message-sender.client.ts:47-52, mutex.ts:7-9).
ThreatIsAnnounced ==
    PublicationsSettle =>
        ((head = MaxSnap /\ MustPause(MaxSnap) /\ chain[MaxSnap].guardian) ~>
            (\E b \in bus : b.kind = "pause" /\ b.snap = MaxSnap))

\* When blocks stop coming and nothing is to be paused, the newest one ends up
\* processed: each module open for deposits is attested in that state, whatever
\* call was dropped by OneAtTime or failed on the way.
NewestIsProcessed ==
    KeysFairness =>
        ((head = MaxSnap /\ ~MustPause(MaxSnap)) ~> (lastMeta = MaxSnap))

=============================================================================
